---- MODULE Spec2Model ----
(***************************************************************************)
(* Model of the FENRIR backtest engine                                     *)
(* (src/fenrir-trading-bot/backtesting.py, class BacktestEngine).          *)
(*                                                                         *)
(* Numbers.  The engine computes with Python floats.  The model computes   *)
(* with exact rationals [num, den] in lowest terms (den > 0), so that the  *)
(* arithmetic identities of the code are kept and no rounding is invented. *)
(* Prices are counted in units of 0.000001 SOL per token, times in seconds,*)
(* SOL amounts in SOL.                                                     *)
(*                                                                         *)
(* Python None / an absent dict key is NoField (-1) for numbers,           *)
(* NoneRat (den = 0) for rationals and "None" for strings.                 *)
(***************************************************************************)
EXTENDS Integers, Sequences, FiniteSets, TLC

VARIABLES
    historical_data,   \* self.historical_data: sequence of launch records
    pc,                \* where the engine is: "init", "loaded", "buy", "exit", "calc", "done", "error"
    config,            \* the BacktestConfig of the current run
    start_date,        \* argument of run_backtest (NoField = None)
    end_date,          \* argument of run_backtest (NoField = None)
    data,              \* local `data`: the date-filtered launches
    i,                 \* index in `data` of the launch being simulated
    capital,           \* local `capital`
    positions,         \* local `positions`: the open positions
    closed_positions,  \* local `closed_positions`
    trades,            \* local `trades`: the trade log
    snapshot,          \* the copy positions[:] the exit loop iterates (position ids)
    j,                 \* index in `snapshot` of the position being evaluated
    seen,              \* history variable: position id -> set of current prices it was evaluated at
    results,           \* the value returned by run_backtest (NoResults before it returns)
    prev,              \* history variable: what the run before this one returned, when it
                       \* was called with the same arguments (NoResults otherwise)
    rt,                \* one buy and sell computed in floating point (RoundTripSpec)
    cv,                \* one bonding-curve request and its response (CurveSpec)
    disk,              \* rloop.py: the tasks, progress and status files (LoopSpec)
    lp,                \* rloop.py: the process running main() and run_loop
    ai,                \* rloop.py: the call of run_ai_prompt in progress
    runs,              \* rloop.py: how many times main() has been started
    db,                \* telegram_bot.py: addresses in the analyzed_tokens table (ScannerSpec)
    last_analysis,     \* telegram_bot.py: self.last_analysis, token key -> time of the last start
    stats,             \* telegram_bot.py: self.stats
    log,               \* telegram_bot.py: the "Analyzing token" lines logged so far
    handlers,          \* telegram_bot.py: the handle_message tasks, one per message
    clients,           \* telegram_bot.py: WebSocketBridge.clients
    conns,             \* telegram_bot.py: the connection handler of each websocket
    now                \* telegram_bot.py: time.time(), in seconds

vars == <<historical_data, pc, config, start_date, end_date, data, i, capital,
          positions, closed_positions, trades, snapshot, j, seen, results, prev>>

\* The variables of the other specifications, as each of them sees them
loopVars == <<disk, lp, ai, runs>>

scannerVars == <<db, last_analysis, stats, log, handlers, clients, conns, now>>

notEngine == <<rt, cv, loopVars, scannerVars>>

notRoundTrip == <<vars, cv, loopVars, scannerVars>>

notCurve == <<vars, rt, loopVars, scannerVars>>

notLoop == <<vars, rt, cv, scannerVars>>

notScanner == <<vars, rt, cv, loopVars>>

allVars == <<vars, rt, cv, loopVars, scannerVars>>

-----------------------------------------------------------------------------
(* Bounds of the model *)

MaxLaunches == 3

\* telegram_bot.py: the websockets that connect, the messages that arrive
\* and the time that passes
MaxClients == 2
MaxMessages == 2
MaxClock == 60

-----------------------------------------------------------------------------
(* Exact rational arithmetic standing for the float arithmetic of the code *)

NoField == -1
NoneRat == [num |-> 0, den |-> 0]

Abs(x) == IF x < 0 THEN -x ELSE x

RECURSIVE GCD(_, _)
GCD(a, b) == IF b = 0 THEN a ELSE GCD(b, a % b)

Rat(n, d) ==
    LET s == IF d < 0 THEN -1 ELSE 1
        g == GCD(Abs(n), Abs(d))
    IN  [num |-> (s * n) \div g, den |-> (s * d) \div g]

FromInt(n) == [num |-> n, den |-> 1]

Zero == FromInt(0)

RAdd(a, b) ==
    LET g == GCD(a.den, b.den)
    IN  Rat(a.num * (b.den \div g) + b.num * (a.den \div g), (a.den \div g) * b.den)

RNeg(a) == [num |-> -a.num, den |-> a.den]

RSub(a, b) == RAdd(a, RNeg(b))

RMul(a, b) ==
    LET g1 == GCD(Abs(a.num), b.den)
        g2 == GCD(Abs(b.num), a.den)
    IN  Rat((a.num \div g1) * (b.num \div g2), (a.den \div g2) * (b.den \div g1))

RDiv(a, b) == RMul(a, Rat(b.den, b.num))

RLt(a, b) == a.num * b.den < b.num * a.den

RLe(a, b) == a.num * b.den <= b.num * a.den

RGt(a, b) == RLt(b, a)

RGe(a, b) == RLe(b, a)

\* int(x): truncation toward zero of the quotient a / b, b > 0
TruncDiv(a, b) == IF a >= 0 THEN a \div b ELSE -((-a) \div b)

-----------------------------------------------------------------------------
(* Inputs: launch records and configurations *)

\* launch.get("initial_price", 0.000001): the default is one price unit
DefaultPrice == 1

Hist(offsets, ts) ==
    [k \in 1..Len(offsets) |-> [time |-> ts + offsets[k][1], price |-> offsets[k][2]]]

\* A launch record of the input format (module docstring) at timestamp ts.
Launch(ts, mint, sym, liq, mcap, offsets, iprice) ==
    [timestamp |-> ts, token_mint |-> mint, token_symbol |-> sym,
     initial_liquidity_sol |-> liq, initial_market_cap_sol |-> mcap,
     price_history |-> Hist(offsets, ts), initial_price |-> iprice]

\* Launch timestamps 0, 60 and 62: with the execution delay of 2 seconds a
\* position entered at the launch of time 0 is 58 seconds old at time 60 and
\* exactly one minute old at time 62.
Launches ==
    { Launch(ts, "A", "WOLF", 10, NoField, << <<0, 8>> >>, NoField) : ts \in {0, 60} }
    \cup { Launch(ts, "B", "None", 10, 50, << <<0, 10>> >>, NoField) : ts \in {60, 62} }
    \cup { Launch(ts, "C", "None", 10, NoField, << <<0, 9>>, <<4, 12>> >>, NoField) : ts \in {62} }
    \cup { Launch(ts, "D", "None", 1, NoField, << <<0, 8>> >>, NoField) : ts \in {62} }
    \cup { Launch(ts, "E", "None", 10, 500, << <<0, 16>> >>, NoField) : ts \in {62} }
    \cup { Launch(ts, "F", "None", 10, NoField, << <<0, 10>>, <<2, 0>> >>, NoField) : ts \in {62} }
    \cup { Launch(ts, "G", "None", 10, NoField, << >>, NoField) : ts \in {60} }
    \cup { Launch(ts, "H", "None", 10, NoField, << >>, 0) : ts \in {60} }

BotConfig(buy, minliq, maxmcap, tp, sl, trail, age) ==
    [buy_amount_sol |-> buy, min_initial_liquidity_sol |-> minliq,
     max_initial_market_cap_sol |-> maxmcap, take_profit_pct |-> tp,
     stop_loss_pct |-> sl, trailing_stop_pct |-> trail,
     max_position_age_minutes |-> age]

BacktestConfig(bot, mode, delay, slip, cap, maxpos) ==
    [bot_config |-> bot, mode |-> mode, execution_delay_seconds |-> delay,
     slippage_pct |-> slip, starting_capital_sol |-> cap,
     max_concurrent_positions |-> maxpos]

\* Strategy thresholds are positive percentages, the buy size is positive.
Configs ==
    { BacktestConfig(BotConfig(2, 5, 100, 50, 25, 10, 1), "optimistic", 2, 1, 5, 2),
      BacktestConfig(BotConfig(2, 5, 100, 50, 25, 10, 1), "realistic", 2, 1, 3, 2),
      BacktestConfig(BotConfig(2, 5, 100, 100, 25, 20, 2), "pessimistic", 2, 5, 10, 1) }

DateRanges == { <<NoField, NoField>>, <<60, 60>>, <<62, 0>> }

NoConfig == BacktestConfig(BotConfig(0, 0, 0, 0, 0, 0, 0), "None", 0, 0, 0, 0)

NoResults == [returned |-> FALSE]

NoRoundTrip == [stage |-> "none"]

NoCurveQuery == [stage |-> "none"]

NoFile == [exists |-> FALSE]

NoProcess == [pc |-> "idle"]

NoCall == [attempt |-> 0, waits |-> << >>, outcome |-> "none"]

\* No file yet, no process running
NewLoop ==
    /\ disk = [tasks_file |-> NoFile, progress_file |-> NoFile, status_file |-> NoFile]
    /\ lp = NoProcess
    /\ ai = NoCall
    /\ runs = 0

Websockets == 1..MaxClients

NoStats == [tokens_detected |-> 0, tokens_analyzed |-> 0, buy_signals |-> 0, alerts_sent |-> 0]

\* The bot as TelegramTokenBot.__init__ leaves it, on an empty database,
\* before any message and any connection
NewScanner ==
    /\ db = {}
    /\ last_analysis = << >>
    /\ stats = NoStats
    /\ log = << >>
    /\ handlers = << >>
    /\ clients = {}
    /\ conns = [w \in Websockets |-> "none"]
    /\ now = 0

-----------------------------------------------------------------------------
(* load_historical_data *)

\* Mutant of InsertByTimestamp: the comparison is turned round
RECURSIVE InsertByTimestampDescending(_, _)
InsertByTimestampDescending(x, s) ==
    IF s = << >> THEN << x >>
    ELSE IF x.timestamp > Head(s).timestamp THEN << x >> \o s
    ELSE << Head(s) >> \o InsertByTimestampDescending(x, Tail(s))

RECURSIVE InsertByTimestamp(_, _)
InsertByTimestamp(x, s) ==
    IF s = << >> THEN << x >>
    ELSE IF x.timestamp < Head(s).timestamp THEN << x >> \o s
    ELSE << Head(s) >> \o InsertByTimestamp(x, Tail(s))

\* sorted(data, key=lambda x: x["timestamp"]): stable, ascending
RECURSIVE SortedByTimestamp(_)
SortedByTimestamp(s) ==
    IF s = << >> THEN << >>
    ELSE InsertByTimestamp(s[Len(s)], SortedByTimestamp(SubSeq(s, 1, Len(s) - 1)))

SeqsUpTo(S, n) == UNION { [1..k -> S] : k \in 0..n }

-----------------------------------------------------------------------------
(* _filter_by_date *)

\* Mutant of FilterByDate: the bounds of the date range are exclusive
FilterByDateExclusive(hd, sd, ed) ==
    LET f1 == IF sd # NoField THEN SelectSeq(hd, LAMBDA d : d.timestamp > sd) ELSE hd
    IN  IF ed # NoField THEN SelectSeq(f1, LAMBDA d : d.timestamp < ed) ELSE f1

FilterByDate(hd, sd, ed) ==
    LET f1 == IF sd # NoField THEN SelectSeq(hd, LAMBDA d : d.timestamp >= sd) ELSE hd
    IN  IF ed # NoField THEN SelectSeq(f1, LAMBDA d : d.timestamp <= ed) ELSE f1

-----------------------------------------------------------------------------
(* _get_price_at_time: the price of the sample closest in time, the first   *)
(* such sample on ties; the initial price when there is no history.  The   *)
(* result is an integer number of price units; 0 is falsy in the callers.  *)

\* Mutant of ClosestFrom: a sample at equal distance replaces the earlier one
RECURSIVE ClosestFromLast(_, _, _, _, _)
ClosestFromLast(ph, k, target_time, min_diff, closest_price) ==
    IF k > Len(ph) THEN closest_price
    ELSE LET diff == Abs(ph[k].time - target_time)
         IN  IF min_diff = NoField \/ diff <= min_diff
             THEN ClosestFromLast(ph, k + 1, target_time, diff, ph[k].price)
             ELSE ClosestFromLast(ph, k + 1, target_time, min_diff, closest_price)

RECURSIVE ClosestFrom(_, _, _, _, _)
ClosestFrom(ph, k, target_time, min_diff, closest_price) ==
    IF k > Len(ph) THEN closest_price
    ELSE LET diff == Abs(ph[k].time - target_time)
         IN  IF min_diff = NoField \/ diff < min_diff
             THEN ClosestFrom(ph, k + 1, target_time, diff, ph[k].price)
             ELSE ClosestFrom(ph, k + 1, target_time, min_diff, closest_price)

GetPriceAtTime(launch, target_time) ==
    IF launch.price_history = << >>
    THEN IF launch.initial_price = NoField THEN DefaultPrice ELSE launch.initial_price
    ELSE ClosestFrom(launch.price_history, 1, target_time, NoField, 0)

-----------------------------------------------------------------------------
(* _should_buy_token *)

\* Mutant of ShouldBuyToken: the liquidity criterion is not checked
ShouldBuyTokenNoLiquidity(launch, bot) ==
    LET market_cap == IF launch.initial_market_cap_sol = NoField
                      THEN 0 ELSE launch.initial_market_cap_sol
    IN  IF market_cap > bot.max_initial_market_cap_sol THEN FALSE
        ELSE TRUE

ShouldBuyToken(launch, bot) ==
    LET market_cap == IF launch.initial_market_cap_sol = NoField
                      THEN 0 ELSE launch.initial_market_cap_sol
    IN  IF launch.initial_liquidity_sol < bot.min_initial_liquidity_sol THEN FALSE
        ELSE IF market_cap > bot.max_initial_market_cap_sol THEN FALSE
        ELSE TRUE

-----------------------------------------------------------------------------
(* Slippage by mode: the factor applied to a buy price and to a sell price *)

\* Mutant of BuySlippage: the pessimistic mode applies the slippage once
BuySlippageOnce(cfg) ==
    IF cfg.mode = "realistic" THEN Rat(100 + cfg.slippage_pct, 100)
    ELSE IF cfg.mode = "pessimistic" THEN Rat(100 + cfg.slippage_pct, 100)
    ELSE FromInt(1)

BuySlippage(cfg) ==
    IF cfg.mode = "realistic" THEN Rat(100 + cfg.slippage_pct, 100)
    ELSE IF cfg.mode = "pessimistic" THEN Rat(100 + cfg.slippage_pct * 2, 100)
    ELSE FromInt(1)

\* Mutant of SellSlippage: the slippage of a sell is applied upward
SellSlippageUpward(cfg) ==
    IF cfg.mode = "realistic" THEN Rat(100 + cfg.slippage_pct, 100)
    ELSE IF cfg.mode = "pessimistic" THEN Rat(100 + cfg.slippage_pct * 2, 100)
    ELSE FromInt(1)

SellSlippage(cfg) ==
    IF cfg.mode = "realistic" THEN Rat(100 - cfg.slippage_pct, 100)
    ELSE IF cfg.mode = "pessimistic" THEN Rat(100 - cfg.slippage_pct * 2, 100)
    ELSE FromInt(1)

-----------------------------------------------------------------------------------------------------------------------------------------------------
(* BacktestPosition(...): the dataclass constructor with __post_init__.    *)
(* pid is the identity of the position object: the index in `data` of the  *)
(* launch that made it.                                                    *)

BacktestPosition(pid, token_mint, token_symbol, entry_time, entry_price, entry_amount_sol, entry_amount_tokens, peak_price) ==
    [pid |-> pid,
     token_mint |-> token_mint,
     token_symbol |-> token_symbol,
     entry_time |-> entry_time,
     entry_price |-> entry_price,
     entry_amount_sol |-> entry_amount_sol,
     entry_amount_tokens |-> entry_amount_tokens,
     exit_time |-> NoField,
     exit_price |-> NoneRat,
     exit_amount_sol |-> NoneRat,
     exit_reason |-> "None",
     pnl_sol |-> NoneRat,
     pnl_pct |-> NoneRat,
     hold_time_minutes |-> NoField,
     peak_price |-> IF peak_price = NoneRat THEN entry_price ELSE peak_price]

-----------------------------------------------------------------------------
(* _simulate_buy: << >> for None, << position >> otherwise *)

\* Mutant of SimulateBuy: the buy amount is not compared with the capital
SimulateBuyNoCapitalCheck(launch, cfg, available_capital, pid) ==
    LET buy_amount == cfg.bot_config.buy_amount_sol
        entry_time == launch.timestamp + cfg.execution_delay_seconds
        resolved   == GetPriceAtTime(launch, entry_time)
        entry_price == RMul(FromInt(resolved), BuySlippage(cfg))
    IN  IF resolved = 0 THEN << >>
        ELSE << BacktestPosition(pid, launch.token_mint,
                    IF launch.token_symbol = "None" THEN "UNKNOWN" ELSE launch.token_symbol,
                    entry_time, entry_price, FromInt(buy_amount),
                    RDiv(FromInt(buy_amount), entry_price), entry_price) >>

SimulateBuy(launch, cfg, available_capital, pid) ==
    LET buy_amount == cfg.bot_config.buy_amount_sol
        entry_time == launch.timestamp + cfg.execution_delay_seconds
        resolved   == GetPriceAtTime(launch, entry_time)
        entry_price == RMul(FromInt(resolved), BuySlippage(cfg))
    IN  IF RGt(FromInt(buy_amount), available_capital) THEN << >>
        ELSE IF resolved = 0 THEN << >>
        ELSE << BacktestPosition(pid, launch.token_mint,
                    IF launch.token_symbol = "None" THEN "UNKNOWN" ELSE launch.token_symbol,
                    entry_time, entry_price, FromInt(buy_amount),
                    RDiv(FromInt(buy_amount), entry_price), entry_price) >>

-----------------------------------------------------------------------------
(* _should_exit_position: the decision, the kind of the reason (the text   *)
(* before the formatted number) and the peak price the call leaves in the  *)
(* position.                                                               *)

\* Mutant of UpdatedPeak: the peak follows the current price down as well
UpdatedPeakFollows(position, current_price) == current_price

\* if current_price > position.peak_price: position.peak_price = current_price
UpdatedPeak(position, current_price) ==
    IF RGt(current_price, position.peak_price) THEN current_price ELSE position.peak_price

PnlPct(position, current_price) ==
    LET current_value == RMul(position.entry_amount_tokens, current_price)
    IN  RMul(RDiv(RSub(current_value, position.entry_amount_sol),
                  position.entry_amount_sol), FromInt(100))

\* Mutant of DrawdownFromPeak: a fraction, not a percentage
DrawdownFraction(peak_price, current_price) ==
    RDiv(RSub(peak_price, current_price), peak_price)

DrawdownFromPeak(peak_price, current_price) ==
    RMul(RDiv(RSub(peak_price, current_price), peak_price), FromInt(100))

\* Mutant of HoldTime: hours, not minutes
HoldTimeHours(position, current_data) ==
    Rat(current_data.timestamp - position.entry_time, 3600)

\* (current_time - position.entry_time).total_seconds() / 60
HoldTime(position, current_data) ==
    Rat(current_data.timestamp - position.entry_time, 60)

\* Mutant of ShouldExitPosition: the trailing stop is checked before the stop loss
ShouldExitPositionTrailingFirst(position, current_data, bot) ==
    LET cp == GetPriceAtTime(current_data, current_data.timestamp)
        current_price == FromInt(cp)
        peak == UpdatedPeak(position, current_price)
        pnl_pct == PnlPct(position, current_price)
    IN  IF cp = 0
        THEN [should_exit |-> FALSE, reason |-> "", peak_price |-> position.peak_price]
        ELSE IF RGe(pnl_pct, FromInt(bot.take_profit_pct))
        THEN [should_exit |-> TRUE, reason |-> "Take profit", peak_price |-> peak]
        ELSE IF RGe(DrawdownFromPeak(peak, current_price), FromInt(bot.trailing_stop_pct))
        THEN [should_exit |-> TRUE, reason |-> "Trailing stop", peak_price |-> peak]
        ELSE IF RLe(pnl_pct, FromInt(-bot.stop_loss_pct))
        THEN [should_exit |-> TRUE, reason |-> "Stop loss", peak_price |-> peak]
        ELSE IF RGe(HoldTime(position, current_data), FromInt(bot.max_position_age_minutes))
        THEN [should_exit |-> TRUE, reason |-> "Max hold time", peak_price |-> peak]
        ELSE [should_exit |-> FALSE, reason |-> "", peak_price |-> peak]

\* Mutant of ShouldExitPosition: the price is the one of the series of the
\* position's own launch, at the time of the current launch
ShouldExitPositionOwnSeries(position, current_data, bot) ==
    LET cp == GetPriceAtTime(data[position.pid], current_data.timestamp)
        current_price == FromInt(cp)
        peak == UpdatedPeak(position, current_price)
        pnl_pct == PnlPct(position, current_price)
    IN  IF cp = 0
        THEN [should_exit |-> FALSE, reason |-> "", peak_price |-> position.peak_price]
        ELSE IF RGe(pnl_pct, FromInt(bot.take_profit_pct))
        THEN [should_exit |-> TRUE, reason |-> "Take profit", peak_price |-> peak]
        ELSE IF RLe(pnl_pct, FromInt(-bot.stop_loss_pct))
        THEN [should_exit |-> TRUE, reason |-> "Stop loss", peak_price |-> peak]
        ELSE IF RGe(DrawdownFromPeak(peak, current_price), FromInt(bot.trailing_stop_pct))
        THEN [should_exit |-> TRUE, reason |-> "Trailing stop", peak_price |-> peak]
        ELSE IF RGe(HoldTime(position, current_data), FromInt(bot.max_position_age_minutes))
        THEN [should_exit |-> TRUE, reason |-> "Max hold time", peak_price |-> peak]
        ELSE [should_exit |-> FALSE, reason |-> "", peak_price |-> peak]

ShouldExitPosition(position, current_data, bot) ==
    LET cp == GetPriceAtTime(current_data, current_data.timestamp)
        current_price == FromInt(cp)
        peak == UpdatedPeak(position, current_price)
        pnl_pct == PnlPct(position, current_price)
    IN  IF cp = 0
        THEN [should_exit |-> FALSE, reason |-> "", peak_price |-> position.peak_price]
        ELSE IF RGe(pnl_pct, FromInt(bot.take_profit_pct))
        THEN [should_exit |-> TRUE, reason |-> "Take profit", peak_price |-> peak]
        ELSE IF RLe(pnl_pct, FromInt(-bot.stop_loss_pct))
        THEN [should_exit |-> TRUE, reason |-> "Stop loss", peak_price |-> peak]
        ELSE IF RGe(DrawdownFromPeak(peak, current_price), FromInt(bot.trailing_stop_pct))
        THEN [should_exit |-> TRUE, reason |-> "Trailing stop", peak_price |-> peak]
        ELSE IF RGe(HoldTime(position, current_data), FromInt(bot.max_position_age_minutes))
        THEN [should_exit |-> TRUE, reason |-> "Max hold time", peak_price |-> peak]
        ELSE [should_exit |-> FALSE, reason |-> "", peak_price |-> peak]

-----------------------------------------------------------------------------
(* _simulate_sell: the position with its exit fields filled in *)

\* Mutant of ExitBasePrice: no fallback when no price is resolved
ExitBasePriceNoFallback(position, resolved) == FromInt(resolved)

\* if not exit_price: exit_price = position.entry_price * 0.9
ExitBasePrice(position, resolved) ==
    IF resolved = 0 THEN RMul(position.entry_price, Rat(9, 10)) ELSE FromInt(resolved)

\* Mutant of SimulateSell: the profit is the value received, the amount
\* paid at entry is not taken off
SimulateSellGrossPnl(position, launch, cfg, reason) ==
    LET exit_time == launch.timestamp + cfg.execution_delay_seconds
        resolved  == GetPriceAtTime(launch, exit_time)
        exit_price == RMul(ExitBasePrice(position, resolved), SellSlippage(cfg))
        exit_value == RMul(position.entry_amount_tokens, exit_price)
        pnl_sol    == exit_value
    IN  [position EXCEPT
            !.exit_time = exit_time,
            !.exit_price = exit_price,
            !.exit_amount_sol = exit_value,
            !.exit_reason = reason,
            !.pnl_sol = pnl_sol,
            !.pnl_pct = RMul(RDiv(pnl_sol, position.entry_amount_sol), FromInt(100)),
            !.hold_time_minutes = TruncDiv(exit_time - position.entry_time, 60)]

SimulateSell(position, launch, cfg, reason) ==
    LET exit_time == launch.timestamp + cfg.execution_delay_seconds
        resolved  == GetPriceAtTime(launch, exit_time)
        exit_price == RMul(ExitBasePrice(position, resolved), SellSlippage(cfg))
        exit_value == RMul(position.entry_amount_tokens, exit_price)
        pnl_sol    == RSub(exit_value, position.entry_amount_sol)
    IN  [position EXCEPT
            !.exit_time = exit_time,
            !.exit_price = exit_price,
            !.exit_amount_sol = exit_value,
            !.exit_reason = reason,
            !.pnl_sol = pnl_sol,
            !.pnl_pct = RMul(RDiv(pnl_sol, position.entry_amount_sol), FromInt(100)),
            !.hold_time_minutes = TruncDiv(exit_time - position.entry_time, 60)]

-----
(* _calculate_results, _calculate_sharpe, _calculate_max_drawdown *)

\* Mutant of Trade: every record is written as a BUY
TradeAlwaysBuy(timestamp, trade_type, position, price, amount_sol, reason) ==
    [timestamp |-> timestamp, trade_type |-> "BUY", pid |-> position.pid,
     token_mint |-> position.token_mint, token_symbol |-> position.token_symbol,
     price |-> price, amount_sol |-> amount_sol,
     amount_tokens |-> position.entry_amount_tokens, reason |-> reason]

Trade(timestamp, trade_type, position, price, amount_sol, reason) ==
    [timestamp |-> timestamp, trade_type |-> trade_type, pid |-> position.pid,
     token_mint |-> position.token_mint, token_symbol |-> position.token_symbol,
     price |-> price, amount_sol |-> amount_sol,
     amount_tokens |-> position.entry_amount_tokens, reason |-> reason]

\* statistics.mean of a non-empty sequence of numbers
RECURSIVE RSum(_)
RSum(xs) == IF xs = << >> THEN FromInt(0) ELSE RAdd(xs[1], RSum(Tail(xs)))

Mean(xs) == RDiv(RSum(xs), FromInt(Len(xs)))

\* max(...) and min(...) of a non-empty sequence of numbers
RECURSIVE MaxOf(_)
MaxOf(xs) ==
    IF Len(xs) = 1 THEN xs[1]
    ELSE LET m == MaxOf(Tail(xs)) IN IF RGt(m, xs[1]) THEN m ELSE xs[1]

RECURSIVE MinOf(_)
MinOf(xs) ==
    IF Len(xs) = 1 THEN xs[1]
    ELSE LET m == MinOf(Tail(xs)) IN IF RLt(m, xs[1]) THEN m ELSE xs[1]

PnlPcts(ps) == [k \in 1..Len(ps) |-> ps[k].pnl_pct]

\* _calculate_sharpe.  The returned ratio (avg * 252) / (stdev * 252 ** 0.5)
\* is irrational in general; it is kept as its sign.  The sample standard
\* deviation is 0 exactly when all the returns are equal, and it is positive
\* otherwise, so the ratio has the sign of the average return.
ZeroSharpe == [sign |-> 0]

\* Mutant of CalculateSharpe: neither the length nor the deviation is checked
CalculateSharpeUnguarded(returns) ==
    [sign |-> IF Mean(returns).num > 0 THEN 1 ELSE IF Mean(returns).num < 0 THEN -1 ELSE 0]

CalculateSharpe(returns) ==
    IF Len(returns) < 2 THEN ZeroSharpe
    ELSE LET avg_return == Mean(returns)
             std_dev_is_zero == \A k \in 1..Len(returns) : returns[k] = returns[1]
         IN  IF std_dev_is_zero THEN ZeroSharpe
             ELSE [sign |-> IF avg_return.num > 0 THEN 1
                            ELSE IF avg_return.num < 0 THEN -1 ELSE 0]

\* sorted(positions, key=lambda x: x.exit_time): stable, ascending
RECURSIVE InsertByExitTime(_, _)
InsertByExitTime(x, s) ==
    IF s = << >> THEN << x >>
    ELSE IF x.exit_time < Head(s).exit_time THEN << x >> \o s
    ELSE << Head(s) >> \o InsertByExitTime(x, Tail(s))

RECURSIVE SortedByExitTime(_)
SortedByExitTime(s) ==
    IF s = << >> THEN << >>
    ELSE InsertByExitTime(s[Len(s)], SortedByExitTime(SubSeq(s, 1, Len(s) - 1)))

\* The loop of _calculate_max_drawdown from the k-th position of ps on
RECURSIVE DrawdownFrom(_, _, _, _, _)
DrawdownFrom(ps, k, running, peak, max_dd) ==
    IF k > Len(ps) THEN max_dd
    ELSE LET c  == RAdd(running, ps[k].pnl_sol)
             pk == IF RGt(c, peak) THEN c ELSE peak
             dd == RMul(RDiv(RSub(pk, c), pk), FromInt(100))
         IN  DrawdownFrom(ps, k + 1, c, pk, IF RGt(dd, max_dd) THEN dd ELSE max_dd)

\* Mutant of CalculateMaxDrawdown: the positions are replayed as they are listed
CalculateMaxDrawdownUnsorted(ps, starting_capital) ==
    DrawdownFrom(ps, 1, starting_capital, starting_capital, FromInt(0))

CalculateMaxDrawdown(ps, starting_capital) ==
    DrawdownFrom(SortedByExitTime(ps), 1, starting_capital, starting_capital, FromInt(0))

\* Mutant of IsWinner: a position that breaks even counts as a winner
IsWinnerOrEven(p) == RGe(p.pnl_sol, FromInt(0))

\* winners = [p for p in positions if p.pnl_sol > 0]
IsWinner(p) == RGt(p.pnl_sol, FromInt(0))

\* losers = [p for p in positions if p.pnl_sol <= 0]
IsLoser(p) == RLe(p.pnl_sol, FromInt(0))

\* Mutant of ZeroedResults: the capital held by the positions still open is
\* reported as a drawdown
ZeroedResultsCapitalDrawdown(cfg, ending_capital, sd, ed) ==
    LET starting_capital == FromInt(cfg.starting_capital_sol)
    IN  [returned |-> TRUE, config |-> cfg, start_date |-> sd, end_date |-> ed,
         starting_capital_sol |-> starting_capital,
         ending_capital_sol |-> ending_capital,
         total_pnl_sol |-> FromInt(0), total_return_pct |-> FromInt(0),
         total_trades |-> 0, winning_trades |-> 0, losing_trades |-> 0,
         win_rate |-> FromInt(0),
         avg_win_pct |-> FromInt(0), avg_loss_pct |-> FromInt(0),
         largest_win_pct |-> FromInt(0), largest_loss_pct |-> FromInt(0),
         max_drawdown_pct |-> RMul(RDiv(RSub(starting_capital, ending_capital), starting_capital), FromInt(100)), sharpe_ratio |-> ZeroSharpe,
         profit_factor |-> FromInt(0),
         positions |-> << >>, trades |-> << >>,
         avg_hold_time_minutes |-> FromInt(0)]

\* The result of a run without closed positions
ZeroedResults(cfg, ending_capital, sd, ed) ==
    LET starting_capital == FromInt(cfg.starting_capital_sol)
    IN  [returned |-> TRUE, config |-> cfg, start_date |-> sd, end_date |-> ed,
         starting_capital_sol |-> starting_capital,
         ending_capital_sol |-> ending_capital,
         total_pnl_sol |-> FromInt(0), total_return_pct |-> FromInt(0),
         total_trades |-> 0, winning_trades |-> 0, losing_trades |-> 0,
         win_rate |-> FromInt(0),
         avg_win_pct |-> FromInt(0), avg_loss_pct |-> FromInt(0),
         largest_win_pct |-> FromInt(0), largest_loss_pct |-> FromInt(0),
         max_drawdown_pct |-> FromInt(0), sharpe_ratio |-> ZeroSharpe,
         profit_factor |-> FromInt(0),
         positions |-> << >>, trades |-> << >>,
         avg_hold_time_minutes |-> FromInt(0)]

CalculateResults(cfg, closed, trade_log, ending_capital, sd, ed) ==
    LET starting_capital == FromInt(cfg.starting_capital_sol)
        total_pnl == RSub(ending_capital, starting_capital)
        winners == SelectSeq(closed, IsWinner)
        losers  == SelectSeq(closed, IsLoser)
        avg_win  == IF winners # << >> THEN Mean(PnlPcts(winners)) ELSE FromInt(0)
        avg_loss == IF losers # << >> THEN Mean(PnlPcts(losers)) ELSE FromInt(0)
        ratio == RDiv(avg_win, avg_loss)
    IN  IF closed = << >>
        THEN ZeroedResults(cfg, ending_capital, sd, ed)
        ELSE [returned |-> TRUE, config |-> cfg, start_date |-> sd, end_date |-> ed,
              starting_capital_sol |-> starting_capital,
              ending_capital_sol |-> ending_capital,
              total_pnl_sol |-> total_pnl,
              total_return_pct |-> RMul(RDiv(total_pnl, starting_capital), FromInt(100)),
              total_trades |-> Len(closed), winning_trades |-> Len(winners),
              losing_trades |-> Len(losers),
              win_rate |-> RMul(Rat(Len(winners), Len(closed)), FromInt(100)),
              avg_win_pct |-> avg_win, avg_loss_pct |-> avg_loss,
              largest_win_pct |-> MaxOf(PnlPcts(closed)),
              largest_loss_pct |-> MinOf(PnlPcts(closed)),
              max_drawdown_pct |-> CalculateMaxDrawdown(closed, starting_capital),
              sharpe_ratio |-> CalculateSharpe([k \in 1..Len(closed) |->
                                                  RDiv(closed[k].pnl_pct, FromInt(100))]),
              profit_factor |-> IF avg_loss.num # 0
                                THEN [num |-> Abs(ratio.num), den |-> ratio.den]
                                ELSE FromInt(0),
              positions |-> closed, trades |-> trade_log,
              avg_hold_time_minutes |->
                  Mean([k \in 1..Len(closed) |-> FromInt(closed[k].hold_time_minutes)])]

-----------------------------------------------------------------------------
(* The engine as a state machine *)

Idle == pc \in {"init", "loaded", "done", "error"}

NoLocals ==
    /\ config' = NoConfig
    /\ start_date' = NoField
    /\ end_date' = NoField
    /\ data' = << >>
    /\ i' = 0
    /\ capital' = FromInt(0)
    /\ positions' = << >>
    /\ closed_positions' = << >>
    /\ trades' = << >>
    /\ snapshot' = << >>
    /\ j' = 0
    /\ seen' = << >>
    /\ results' = NoResults
    /\ prev' = NoResults

NewEngine ==
    /\ historical_data = << >>
    /\ pc = "init"
    /\ config = NoConfig
    /\ start_date = NoField
    /\ end_date = NoField
    /\ data = << >>
    /\ i = 0
    /\ capital = FromInt(0)
    /\ positions = << >>
    /\ closed_positions = << >>
    /\ trades = << >>
    /\ snapshot = << >>
    /\ j = 0
    /\ seen = << >>
    /\ results = NoResults
    /\ prev = NoResults

Init ==
    /\ NewEngine
    /\ rt = NoRoundTrip
    /\ cv = NoCurveQuery
    /\ NewLoop
    /\ NewScanner

\* load_historical_data(data): keeps the records sorted by timestamp.
\* An engine is loaded once, before its runs.
LoadHistoricalData(d) ==
    /\ pc = "init"
    /\ historical_data' = SortedByTimestamp(d)
    /\ pc' = "loaded"
    /\ NoLocals
    /\ UNCHANGED notEngine

\* Mutant of RunBacktest: the capital is an attribute of the engine, set by
\* its first run and left as it is by the runs after
RunBacktestKeepsCapital(cfg, sd, ed) ==
    /\ Idle
    /\ LET filtered == FilterByDate(historical_data, sd, ed)
       IN  IF filtered = << >>
           THEN /\ pc' = "error"
                /\ config' = cfg
                /\ start_date' = sd
                /\ end_date' = ed
                /\ data' = << >>
                /\ i' = 0
                /\ capital' = FromInt(0)
                /\ positions' = << >>
                /\ closed_positions' = << >>
                /\ trades' = << >>
                /\ snapshot' = << >>
                /\ j' = 0
                /\ seen' = << >>
                /\ results' = NoResults
                /\ prev' = NoResults
           ELSE /\ pc' = "buy"
                /\ config' = cfg
                /\ start_date' = sd
                /\ end_date' = ed
                /\ data' = filtered
                /\ i' = 1
                /\ capital' = IF pc = "done" THEN capital ELSE FromInt(cfg.starting_capital_sol)
                /\ positions' = << >>
                /\ closed_positions' = << >>
                /\ trades' = << >>
                /\ snapshot' = << >>
                /\ j' = 0
                /\ seen' = [k \in 1..Len(filtered) |-> {}]
                /\ results' = NoResults
                /\ prev' = IF pc = "done" /\ <<cfg, sd, ed>> = <<config, start_date, end_date>>
                           THEN results ELSE NoResults
    /\ UNCHANGED <<historical_data, notEngine>>

\* run_backtest, up to the first launch: filter, fail on no data (the raised
\* ValueError is the state "error", which keeps the arguments of the call and
\* nothing else), initialize
RunBacktest(cfg, sd, ed) ==
    /\ Idle
    /\ LET filtered == FilterByDate(historical_data, sd, ed)
       IN  IF filtered = << >>
           THEN /\ pc' = "error"
                /\ config' = cfg
                /\ start_date' = sd
                /\ end_date' = ed
                /\ data' = << >>
                /\ i' = 0
                /\ capital' = FromInt(0)
                /\ positions' = << >>
                /\ closed_positions' = << >>
                /\ trades' = << >>
                /\ snapshot' = << >>
                /\ j' = 0
                /\ seen' = << >>
                /\ results' = NoResults
                /\ prev' = NoResults
           ELSE /\ pc' = "buy"
                /\ config' = cfg
                /\ start_date' = sd
                /\ end_date' = ed
                /\ data' = filtered
                /\ i' = 1
                /\ capital' = FromInt(cfg.starting_capital_sol)
                /\ positions' = << >>
                /\ closed_positions' = << >>
                /\ trades' = << >>
                /\ snapshot' = << >>
                /\ j' = 0
                /\ seen' = [k \in 1..Len(filtered) |-> {}]
                /\ results' = NoResults
                /\ prev' = IF pc = "done" /\ <<cfg, sd, ed>> = <<config, start_date, end_date>>
                           THEN results ELSE NoResults
    /\ UNCHANGED <<historical_data, notEngine>>

\* Mutant of CanOpen: the limit is compared with <=
CanOpenAtLimit(should_buy, open, cfg) ==
    should_buy /\ Len(open) <= cfg.max_concurrent_positions

\* if should_buy and len(positions) < config.max_concurrent_positions
CanOpen(should_buy, open, cfg) ==
    should_buy /\ Len(open) < cfg.max_concurrent_positions

\* One launch, first half: the entry decision and the simulated buy
BuyStep ==
    /\ pc = "buy"
    /\ LET launch == data[i]
           should_buy == ShouldBuyToken(launch, config.bot_config)
           bought == IF CanOpen(should_buy, positions, config)
                     THEN SimulateBuy(launch, config, capital, i)
                     ELSE << >>
       IN  /\ IF bought # << >>
              THEN LET position == bought[1]
                   IN  /\ positions' = Append(positions, position)
                       /\ capital' = RSub(capital, position.entry_amount_sol)
                       /\ trades' = Append(trades,
                              Trade(position.entry_time, "BUY", position,
                                    position.entry_price, position.entry_amount_sol,
                                    "Entry signal"))
              ELSE UNCHANGED <<positions, capital, trades>>
           /\ snapshot' = [k \in 1..Len(positions') |-> positions'[k].pid]
    /\ j' = 1
    /\ pc' = "exit"
    /\ UNCHANGED <<historical_data, config, start_date, end_date, data, i,
                   closed_positions, seen, results, prev, notEngine>>

IndexOf(ps, pid) == CHOOSE k \in 1..Len(ps) : ps[k].pid = pid

\* Mutant of RemoveFirst: the closed position is left in the open list
RemoveFirstKeeps(ps, x) == ps

\* list.remove: drops the first element equal to x
RemoveFirst(ps, x) ==
    LET k == CHOOSE n \in 1..Len(ps) : ps[n] = x /\ \A m \in 1..(n - 1) : ps[m] # x
    IN  SubSeq(ps, 1, k - 1) \o SubSeq(ps, k + 1, Len(ps))

\* One launch, second half: one iteration of the loop over positions[:]
ExitStep ==
    /\ pc = "exit"
    /\ j <= Len(snapshot)
    /\ LET launch == data[i]
           k == IndexOf(positions, snapshot[j])
           r == ShouldExitPosition(positions[k], launch, config.bot_config)
           position == [positions[k] EXCEPT !.peak_price = r.peak_price]
           cp == GetPriceAtTime(launch, launch.timestamp)
       IN  /\ seen' = IF cp = 0 THEN seen
                      ELSE [seen EXCEPT ![position.pid] = @ \cup {cp}]
           /\ IF r.should_exit
              THEN LET sold == SimulateSell(position, launch, config, r.reason)
                   IN  /\ capital' = RAdd(capital, sold.exit_amount_sol)
                       /\ positions' = RemoveFirst([positions EXCEPT ![k] = sold], sold)
                       /\ closed_positions' = Append(closed_positions, sold)
                       /\ trades' = Append(trades,
                              Trade(sold.exit_time, "SELL", sold, sold.exit_price,
                                    sold.exit_amount_sol, r.reason))
              ELSE /\ positions' = [positions EXCEPT ![k] = position]
                   /\ UNCHANGED <<capital, closed_positions, trades>>
    /\ j' = j + 1
    /\ UNCHANGED <<historical_data, pc, config, start_date, end_date, data, i,
                   snapshot, results, prev, notEngine>>

\* End of the loop over positions[:]: the next launch, or the end of the data
EndTick ==
    /\ pc = "exit"
    /\ j > Len(snapshot)
    /\ IF i < Len(data)
       THEN /\ i' = i + 1
            /\ pc' = "buy"
       ELSE /\ i' = i
            /\ pc' = "calc"
    /\ snapshot' = << >>
    /\ j' = 0
    /\ UNCHANGED <<historical_data, config, start_date, end_date, data, capital,
                   positions, closed_positions, trades, seen, results, prev, notEngine>>

\* run_backtest returns _calculate_results(...)
Finish ==
    /\ pc = "calc"
    /\ results' = CalculateResults(config, closed_positions, trades, capital,
                                   data[1].timestamp, data[Len(data)].timestamp)
    /\ pc' = "done"
    /\ UNCHANGED <<historical_data, config, start_date, end_date, data, i, capital,
                   positions, closed_positions, trades, snapshot, j, seen, prev, notEngine>>

\* A caller loads some launch records, in any order
Load ==
    /\ pc = "init"
    /\ \E d \in SeqsUpTo(Launches, MaxLaunches) : LoadHistoricalData(d)

\* A caller runs a backtest with some configuration and date range
Run ==
    /\ Idle
    /\ \E cfg \in Configs, dr \in DateRanges : RunBacktest(cfg, dr[1], dr[2])

Next ==
    \/ Load
    \/ Run
    \/ BuyStep
    \/ ExitStep
    \/ EndTick
    \/ Finish

Spec == Init /\ [][Next]_allVars

\* Launch records whose price moves between the launch timestamp and the
\* time of the simulated entry, two seconds later, and one whose price stays
VolatileLaunches ==
    { Launch(ts, "V", "None", 10, NoField, << <<0, 20>>, <<2, 5>> >>, NoField) : ts \in {0, 60} }
    \cup { Launch(ts, "W", "None", 10, NoField, << <<0, 5>>, <<2, 10>> >>, NoField) : ts \in {0, 60} }
    \cup { Launch(ts, "A", "WOLF", 10, NoField, << <<0, 8>> >>, NoField) : ts \in {0, 62} }

\* A caller loads some of these records, in any order
LoadVolatile ==
    /\ pc = "init"
    /\ \E d \in SeqsUpTo(VolatileLaunches, MaxLaunches) : LoadHistoricalData(d)

VolatileNext ==
    \/ LoadVolatile
    \/ Run
    \/ BuyStep
    \/ ExitStep
    \/ EndTick
    \/ Finish

VolatileSpec == Init /\ [][VolatileNext]_allVars

-----------------------------------------------------------------------------
(* One buy and sell in the float arithmetic of the code.                   *)
(*                                                                         *)
(* A Python float is an IEEE 754 binary64: MantissaBits significant bits,  *)
(* every operation rounded to nearest, ties to even.  A float is modelled  *)
(* bit by bit as [bits, exp]: bits is the significand, most significant    *)
(* bit first with bits[1] = 1, and exp is the binary exponent of bits[1].  *)
(* The buy amounts and prices of this part are small positive integers,    *)
(* which are floats exactly; no operation overflows or underflows.         *)

MantissaBits == 53

\* Bounds of the inputs
MaxBuyAmount == 3
MaxPrice == 50

RECURSIVE BitsOf(_)
BitsOf(n) == IF n = 0 THEN << >> ELSE Append(BitsOf(n \div 2), n % 2)

RECURSIVE Pow2(_)
Pow2(k) == IF k = 0 THEN 1 ELSE 2 * Pow2(k - 1)

Zeros(k) == [x \in 1..k |-> 0]

\* Long bit strings are computed ChunkBits bits at a time
ChunkBits == 9

\* The bit string of a sequence of ChunkBits-bit digits, most significant first
DigitsToBits(ds) ==
    [n \in 1..(ChunkBits * Len(ds)) |->
        (ds[(n - 1) \div ChunkBits + 1] \div Pow2(ChunkBits - 1 - ((n - 1) % ChunkBits))) % 2]

\* The number a bit string of at most ChunkBits bits stands for
RECURSIVE BitsToInt(_)
BitsToInt(s) ==
    IF s = << >> THEN 0 ELSE 2 * BitsToInt(SubSeq(s, 1, Len(s) - 1)) + s[Len(s)]

\* The digits of a bit string whose length is a multiple of ChunkBits
BitsToDigits(s) ==
    [k \in 1..(Len(s) \div ChunkBits) |->
        BitsToInt(SubSeq(s, ChunkBits * (k - 1) + 1, ChunkBits * k))]

\* A bit string without its leading zeros
StripZeros(s) ==
    IF \A n \in 1..Len(s) : s[n] = 0 THEN << >>
    ELSE LET first == CHOOSE n \in 1..Len(s) : s[n] = 1 /\ \A m \in 1..(n - 1) : s[m] = 0
         IN  SubSeq(s, first, Len(s))

\* s + 1 on a bit string of fixed length; all ones wrap around to all zeros
Increment(s) ==
    IF \A n \in 1..Len(s) : s[n] = 1 THEN Zeros(Len(s))
    ELSE LET last == CHOOSE n \in 1..Len(s) : s[n] = 0 /\ \A m \in (n + 1)..Len(s) : s[m] = 1
         IN  [n \in 1..Len(s) |-> IF n < last THEN s[n] ELSE IF n = last THEN 1 ELSE 0]

\* Mutant of RoundNearestEven: the bits beyond the significand are dropped
RoundTowardZero(s, exp, sticky) ==
    IF Len(s) <= MantissaBits
    THEN [bits |-> s \o Zeros(MantissaBits - Len(s)), exp |-> exp]
    ELSE [bits |-> SubSeq(s, 1, MantissaBits), exp |-> exp]

\* The float nearest to the number with bit string s (s[1] = 1, exponent exp
\* of s[1]) followed by further bits that are all zero iff ~sticky
RoundNearestEven(s, exp, sticky) ==
    IF Len(s) <= MantissaBits
    THEN [bits |-> s \o Zeros(MantissaBits - Len(s)), exp |-> exp]
    ELSE LET kept == SubSeq(s, 1, MantissaBits)
             rest == sticky \/ \E k \in (MantissaBits + 2)..Len(s) : s[k] = 1
             up   == s[MantissaBits + 1] = 1 /\ (rest \/ kept[MantissaBits] = 1)
             inc  == Increment(kept)
         IN  IF ~up THEN [bits |-> kept, exp |-> exp]
             ELSE IF inc[1] = 0
                  THEN [bits |-> << 1 >> \o Zeros(MantissaBits - 1), exp |-> exp + 1]
                  ELSE [bits |-> inc, exp |-> exp]

\* float(n) of a positive integer n
FloatOfInt(n) == RoundNearestEven(BitsOf(n), Len(BitsOf(n)) - 1, FALSE)

\* The next k digits of the quotient by den after the remainder r < den, with
\* the remainder left
RECURSIVE QuotientDigits(_, _, _)
QuotientDigits(r, den, k) ==
    IF k = 0 THEN [digits |-> << >>, rem |-> r]
    ELSE LET v == r * Pow2(ChunkBits)
             t == QuotientDigits(v % den, den, k - 1)
         IN  [digits |-> << v \div den >> \o t.digits, rem |-> t.rem]

\* n / d in float arithmetic, for positive integers n and d
FloatDiv(n, d) ==
    LET ln  == Len(BitsOf(n))
        ld  == Len(BitsOf(d))
        n1  == n * Pow2(IF ld > ln THEN ld - ln ELSE 0)
        d1  == d * Pow2(IF ln > ld THEN ln - ld ELSE 0)
        num == IF n1 >= d1 THEN n1 ELSE 2 * n1
        e   == IF n1 >= d1 THEN ln - ld ELSE ln - ld - 1
        q   == QuotientDigits(num - d1, d1, MantissaBits \div ChunkBits + 1)
    IN  RoundNearestEven(<< 1 >> \o DigitsToBits(q.digits), e, q.rem # 0)

\* The digits of ds * p + carry, most significant first
RECURSIVE MulDigits(_, _, _)
MulDigits(ds, p, carry) ==
    IF ds = << >> THEN << carry >>
    ELSE LET v == ds[Len(ds)] * p + carry
         IN  Append(MulDigits(SubSeq(ds, 1, Len(ds) - 1), p, v \div Pow2(ChunkBits)),
                    v % Pow2(ChunkBits))

\* x * p in float arithmetic, for a float x and a positive integer p < 2^ChunkBits
FloatMul(x, p) ==
    LET pad    == (ChunkBits - (MantissaBits % ChunkBits)) % ChunkBits
        digits == BitsToDigits(Zeros(pad) \o x.bits)
        prod   == StripZeros(DigitsToBits(MulDigits(digits, p, 0)))
    IN  RoundNearestEven(prod, x.exp + Len(prod) - MantissaBits, FALSE)

\* The sign of x - y in float arithmetic: the difference of two floats is 0
\* exactly when they are equal
FloatSubSign(x, y) ==
    IF x = y THEN 0
    ELSE IF x.exp # y.exp THEN (IF x.exp < y.exp THEN -1 ELSE 1)
    ELSE LET k == CHOOSE n \in 1..MantissaBits :
                      x.bits[n] # y.bits[n] /\ \A m \in 1..(n - 1) : x.bits[m] = y.bits[m]
         IN  IF x.bits[k] < y.bits[k] THEN -1 ELSE 1

RoundTripInputs ==
    { [stage |-> "input", buy_amount |-> b, price |-> p] :
        b \in 1..MaxBuyAmount, p \in 1..MaxPrice }

\* A new engine, a buy amount and a resolved price; the mode is optimistic,
\* so the entry price and the exit price are the resolved price
RoundTripInit ==
    /\ NewEngine
    /\ rt \in RoundTripInputs
    /\ cv = NoCurveQuery
    /\ NewLoop
    /\ NewScanner

\* _simulate_buy: tokens_received = buy_amount / entry_price
FloatBuy ==
    /\ rt.stage = "input"
    /\ rt' = [stage |-> "open", buy_amount |-> rt.buy_amount, price |-> rt.price,
              entry_amount_sol |-> FloatOfInt(rt.buy_amount),
              entry_amount_tokens |-> FloatDiv(rt.buy_amount, rt.price)]
    /\ UNCHANGED notRoundTrip

\* _simulate_sell: exit_value = entry_amount_tokens * exit_price and
\* pnl_sol = exit_value - entry_amount_sol (its sign)
FloatSell ==
    /\ rt.stage = "open"
    /\ LET exit_value == FloatMul(rt.entry_amount_tokens, rt.price)
       IN  rt' = [stage |-> "closed", buy_amount |-> rt.buy_amount, price |-> rt.price,
                  entry_amount_sol |-> rt.entry_amount_sol,
                  entry_amount_tokens |-> rt.entry_amount_tokens,
                  exit_amount_sol |-> exit_value,
                  pnl_sol_sign |-> FloatSubSign(exit_value, rt.entry_amount_sol)]
    /\ UNCHANGED notRoundTrip

RoundTripNext ==
    \/ FloatBuy
    \/ FloatSell

RoundTripSpec == RoundTripInit /\ [][RoundTripNext]_allVars

-----------------------------------------------------------------------------
(* The bonding-curve endpoints of app.py.  BondingCurveState and            *)
(* calculate_optimal_buy_amount come from the module pumpfun_program, which *)
(* is not among the sources: the curve model is taken from section 4.1 of   *)
(* the specification, the endpoints that call it from app.py.               *)

MaxSolIn == 4

MaxPriceImpactPct == 5

SearchSteps == 8

BondingCurveState(vt, vs, rtok, rsol, supply, complete) == [virtual_token_reserves |-> vt, virtual_sol_reserves |-> vs, real_token_reserves |-> rtok, real_sol_reserves |-> rsol, token_total_supply |-> supply, complete |-> complete]

\* The curves a client prices: some migrated, some without reserves
Snapshots == { BondingCurveState(vt, vs, rtok, 1, 12, c) : vt \in {0, 8, 12}, vs \in {0, 2, 3}, rtok \in {0, 3, 12}, c \in BOOLEAN }

\* buy_amount_sol of a request: a float, here the halves up to MaxSolIn
Amounts == { Rat(n, 2) : n \in 0..(2 * MaxSolIn) }

\* A snapshot the curve model prices: not migrated, positive virtual reserves
ValidSnapshot(s) == ~s.complete /\ s.virtual_token_reserves > 0 /\ s.virtual_sol_reserves > 0

\* price(snapshot) = virtual_sol_reserves / virtual_token_reserves, zero
\* if virtual_token_reserves is 0
GetPrice(s) == IF s.virtual_token_reserves = 0 THEN Zero ELSE Rat(s.virtual_sol_reserves, s.virtual_token_reserves)

InvalidInput == [outcome |-> "invalid_input"]

\* Tokens out of the constant-product invariant over the virtual reserves
UnconstrainedTokensOut(s, sol_in) == RSub(FromInt(s.virtual_token_reserves), RDiv(FromInt(s.virtual_sol_reserves * s.virtual_token_reserves), RAdd(FromInt(s.virtual_sol_reserves), sol_in)))

\* Mutant of PriceImpact: the prices are taken as tokens per SOL
PriceImpactInverted(s, sol_in, tokens_out) ==
    LET price_before == Rat(s.virtual_token_reserves, s.virtual_sol_reserves)
        price_after  == RDiv(RSub(FromInt(s.virtual_token_reserves), tokens_out),
                             RAdd(FromInt(s.virtual_sol_reserves), sol_in))
    IN  RMul(RDiv(RSub(price_after, price_before), price_before), FromInt(100))

\* Price impact % = (price_after - price_before) / price_before * 100, the
\* price after being that of the reserves moved by the buy
PriceImpact(s, sol_in, tokens_out) ==
    LET price_before == GetPrice(s)
        price_after  == RDiv(RAdd(FromInt(s.virtual_sol_reserves), sol_in),
                             RSub(FromInt(s.virtual_token_reserves), tokens_out))
    IN  RMul(RDiv(RSub(price_after, price_before), price_before), FromInt(100))

\* buy(snapshot, sol_in): state.calculate_buy_price(sol_in)
CalculateBuyPrice(s, sol_in) ==
    IF ~ValidSnapshot(s) \/ ~RGt(sol_in, Zero) THEN InvalidInput
    ELSE LET unconstrained == UnconstrainedTokensOut(s, sol_in)
             exhausted == RGt(unconstrained, FromInt(s.real_token_reserves))
             tokens_out == IF exhausted THEN FromInt(s.real_token_reserves) ELSE unconstrained
         IN  [outcome |-> "ok", tokens_out |-> tokens_out,
              price_impact |-> PriceImpact(s, sol_in, tokens_out),
              exhausted |-> exhausted]

\* Bisection over sol_in between an amount within the cap and one beyond it
RECURSIVE Bisect(_, _, _, _, _)
Bisect(s, cap, low, high, steps) ==
    IF steps = SearchSteps THEN [outcome |-> "ok", amount |-> low, beyond |-> high, steps |-> steps]
    ELSE LET mid == RDiv(RAdd(low, high), FromInt(2))
         IN  IF RLe(CalculateBuyPrice(s, mid).price_impact, cap)
             THEN Bisect(s, cap, mid, high, steps + 1)
             ELSE Bisect(s, cap, low, mid, steps + 1)

\* optimal_buy_amount(snapshot, max_price_impact_pct): the search starts
\* between no buy at all and a buy of the whole virtual SOL reserve, which at
\* least doubles the price
CalculateOptimalBuyAmount(s, max_price_impact_pct) ==
    IF ~ValidSnapshot(s) THEN InvalidInput
    ELSE Bisect(s, FromInt(max_price_impact_pct), Zero, FromInt(s.virtual_sol_reserves), 0)

\* BuyCalculationRequest: the reserves of a curve and a buy amount; the
\* request has no field for `complete`
BuyCalculationRequest(curve, amount) == [virtual_token_reserves |-> curve.virtual_token_reserves, virtual_sol_reserves |-> curve.virtual_sol_reserves, real_token_reserves |-> curve.real_token_reserves, real_sol_reserves |-> curve.real_sol_reserves, token_total_supply |-> curve.token_total_supply, buy_amount_sol |-> amount]

\* Mutant of StateOfRequest: the real token reserves are passed as the
\* virtual ones and the virtual as the real
StateOfRequestSwapped(request) == BondingCurveState(request.real_token_reserves, request.virtual_sol_reserves, request.virtual_token_reserves, request.real_sol_reserves, request.token_total_supply, FALSE)

\* state = BondingCurveState(..., complete=False) of both endpoints
StateOfRequest(request) == BondingCurveState(request.virtual_token_reserves, request.virtual_sol_reserves, request.real_token_reserves, request.real_sol_reserves, request.token_total_supply, FALSE)

ErrorResponse == [status |-> "error"]

\* POST /bonding-curve/calculate-buy: the response for a request and what
\* calculate_buy_price returned
BuyResponse(request, state, result) ==
    IF result.outcome # "ok" THEN ErrorResponse
    ELSE [status |-> "ok", buy_amount_sol |-> request.buy_amount_sol,
          tokens_out |-> result.tokens_out, price_impact_pct |-> result.price_impact,
          avg_entry_price |-> IF RGt(result.tokens_out, Zero)
                              THEN RDiv(request.buy_amount_sol, result.tokens_out) ELSE Zero,
          current_price |-> GetPrice(state)]

\* Mutant of OptimalCap: the endpoint asks for a cap of 50%
OptimalCapTenfold == 10 * MaxPriceImpactPct

\* max_price_impact_pct=5.0 of get_optimal_buy
OptimalCap == MaxPriceImpactPct

\* POST /bonding-curve/optimal-buy
OptimalResponse(result) ==
    IF result.outcome # "ok" THEN ErrorResponse
    ELSE [status |-> "ok", optimal_buy_amount_sol |-> result.amount,
          max_price_impact_pct |-> MaxPriceImpactPct]

CurveInputs == { [stage |-> "request", curve |-> s, buy_amount_sol |-> x] : s \in Snapshots, x \in Amounts }

\* A client holds a decoded curve and an amount to buy
CurveInit ==
    /\ NewEngine
    /\ rt = NoRoundTrip
    /\ cv \in CurveInputs
    /\ NewLoop
    /\ NewScanner

\* calculate_buy(request)
CalculateBuy ==
    /\ cv.stage = "request"
    /\ LET request == BuyCalculationRequest(cv.curve, cv.buy_amount_sol)
           state == StateOfRequest(request)
           result == CalculateBuyPrice(state, request.buy_amount_sol)
       IN  cv' = [stage |-> "buy", curve |-> cv.curve, buy_amount_sol |-> cv.buy_amount_sol,
                  state |-> state, result |-> result,
                  response |-> BuyResponse(request, state, result)]
    /\ UNCHANGED notCurve

\* get_optimal_buy(request)
GetOptimalBuy ==
    /\ cv.stage = "request"
    /\ LET request == BuyCalculationRequest(cv.curve, cv.buy_amount_sol)
           state == StateOfRequest(request)
           result == CalculateOptimalBuyAmount(state, OptimalCap)
       IN  cv' = [stage |-> "optimal", curve |-> cv.curve, buy_amount_sol |-> cv.buy_amount_sol,
                  state |-> state, result |-> result,
                  response |-> OptimalResponse(result)]
    /\ UNCHANGED notCurve

CurveNext ==
    \/ CalculateBuy
    \/ GetOptimalBuy

CurveSpec == CurveInit /\ [][CurveNext]_allVars

-----------------------------------------------------------------------------
(* scripts/rloop.py: the task loop, its files and its calls of the API *)

MaxRuns == 3

MaxTasks == 2

MaxIterationsArg == 2

DefaultTasks == 3

MaxRetries == 3

RateLimitBaseWait == 10

ApiErrorWait == 5

IterationDelay == 2

NoTask == 0

\* What one call of client.messages.create does: it returns a text with or
\* without the completion marker, or raises RateLimitError or another APIError
ApiOutcomes == {"TASK_COMPLETE", "in_progress", "RateLimitError", "APIError"}

\* update_status(state, completed, total, current_task, error): the status file
UpdateStatus(state, completed, total, current_task, error) == [exists |-> TRUE, state |-> state, completed |-> completed, total |-> total, current_task |-> current_task, error |-> error]

\* init_state(tasks) for a list of n goals: the three files it writes.
\* A goal is identified by its place in the list.
InitState(n) == [tasks_file |-> [exists |-> TRUE, goals |-> n, completed |-> [k \in 1..n |-> FALSE]], progress_file |-> [exists |-> TRUE, entries |-> << >>], status_file |-> UpdateStatus("initialized", 0, n, NoTask, "None")]

\* is_complete(tasks)
IsComplete(tasks) == \A k \in 1..Len(tasks.completed) : tasks.completed[k]

\* Mutant of GetNextTaskIndex: the last incomplete task is taken
GetNextTaskIndexLast(tasks) ==
    IF IsComplete(tasks) THEN NoTask
    ELSE CHOOSE k \in 1..Len(tasks.completed) :
             ~tasks.completed[k] /\ \A m \in (k + 1)..Len(tasks.completed) : tasks.completed[m]

\* get_next_task_index(tasks): tasks["completed"].index(False), or None.
\* Places are counted from 1 here, from 0 in the code.
GetNextTaskIndex(tasks) ==
    IF IsComplete(tasks) THEN NoTask
    ELSE CHOOSE k \in 1..Len(tasks.completed) :
             ~tasks.completed[k] /\ \A m \in 1..(k - 1) : tasks.completed[m]

\* sum(tasks["completed"])
CompletedCount(tasks) == Cardinality({ k \in 1..Len(tasks.completed) : tasks.completed[k] })

\* append_progress(text): the progress file with one more entry
AppendProgress(file, entry) == [exists |-> TRUE, entries |-> (IF file.exists THEN file.entries ELSE << >>) \o << entry >>]

LoopStopped == lp.pc \in {"idle", "returned", "raised"}

\* main() with --reset: init_state() and nothing else
MainReset ==
    /\ LoopStopped
    /\ runs < MaxRuns
    /\ runs' = runs + 1
    /\ disk' = InitState(DefaultTasks)
    /\ lp' = [pc |-> "returned", run |-> "reset"]
    /\ ai' = NoCall
    /\ UNCHANGED notLoop

\* run_loop up to its loop, on the files `files`: load_state and the check
\* for a task list that is complete already
RunLoopStart(files, max_iterations, key) ==
    IF ~files.tasks_file.exists
    THEN \* load_state returns the dictionary of init_state alone, and
         \* `tasks, progress = load_state()` raises ValueError
         /\ disk' = InitState(DefaultTasks)
         /\ lp' = [pc |-> "raised", run |-> "loop", error |-> "ValueError"]
    ELSE IF IsComplete(files.tasks_file)
    THEN /\ disk' = [files EXCEPT !.status_file = UpdateStatus("completed", Len(files.tasks_file.completed), Len(files.tasks_file.completed), NoTask, "None")]
         /\ lp' = [pc |-> "returned", run |-> "loop", result |-> TRUE, iteration |-> 0, max_iterations |-> max_iterations]
    ELSE /\ disk' = files
         /\ lp' = [pc |-> "head", run |-> "loop", iteration |-> 0, max_iterations |-> max_iterations, key |-> key, tasks |-> files.tasks_file, total_tasks |-> files.tasks_file.goals, next_idx |-> NoTask, delay |-> 0]

\* main() without --status or --reset: init_state(args.tasks) when --tasks is
\* given (n > 0 goals), then run_loop(max_iterations)
MainRun(n, max_iterations, key) ==
    /\ LoopStopped
    /\ runs < MaxRuns
    /\ runs' = runs + 1
    /\ RunLoopStart(IF n > 0 THEN InitState(n) ELSE disk, max_iterations, key)
    /\ ai' = NoCall
    /\ UNCHANGED notLoop

\* run_loop has returned `result`
Returned(result) == [pc |-> "returned", run |-> "loop", result |-> result, iteration |-> lp.iteration, max_iterations |-> lp.max_iterations]

\* Mutant of LoopFails: the error is logged and run_loop returns False, the
\* status file is left as the pass wrote it
LoopFailsStatusKept(error_msg) ==
    /\ disk' = [disk EXCEPT !.progress_file = AppendProgress(disk.progress_file, [kind |-> "ERROR", task |-> NoTask])]
    /\ lp' = Returned(FALSE)

\* The except branch of run_loop: the error is logged, the status is error
\* and run_loop returns False
LoopFails(error_msg) ==
    /\ disk' = [disk EXCEPT !.progress_file = AppendProgress(disk.progress_file, [kind |-> "ERROR", task |-> NoTask]), !.status_file = UpdateStatus("error", CompletedCount(disk.tasks_file), lp.total_tasks, GetNextTaskIndex(disk.tasks_file), error_msg)]
    /\ lp' = Returned(FALSE)

\* One pass of `while iteration < max_iterations` up to the call of
\* run_ai_prompt, or what follows the loop when the condition fails
LoopHead ==
    /\ lp.pc = "head"
    /\ IF lp.iteration < lp.max_iterations
       THEN LET tasks == disk.tasks_file
            IN  IF IsComplete(tasks)
                THEN /\ disk' = [disk EXCEPT !.status_file = UpdateStatus("completed", lp.total_tasks, lp.total_tasks, NoTask, "None")]
                     /\ lp' = Returned(TRUE)
                     /\ ai' = ai
                ELSE IF ~lp.key
                THEN \* run_ai_prompt raises ValueError before any attempt
                     /\ disk' = [disk EXCEPT !.progress_file = AppendProgress(disk.progress_file, [kind |-> "ERROR", task |-> NoTask]), !.status_file = UpdateStatus("error", CompletedCount(tasks), lp.total_tasks, GetNextTaskIndex(tasks), "ANTHROPIC_API_KEY environment variable not set")]
                     /\ lp' = Returned(FALSE)
                     /\ ai' = [attempt |-> 0, waits |-> << >>, outcome |-> "ValueError"]
                ELSE /\ disk' = [disk EXCEPT !.status_file = UpdateStatus("running", CompletedCount(tasks), lp.total_tasks, GetNextTaskIndex(tasks), "None")]
                     /\ lp' = [lp EXCEPT !.pc = "attempt", !.tasks = tasks, !.next_idx = GetNextTaskIndex(tasks)]
                     /\ ai' = NoCall
       ELSE /\ disk' = [disk EXCEPT !.status_file = UpdateStatus("paused", CompletedCount(lp.tasks), lp.total_tasks, GetNextTaskIndex(lp.tasks), "None")]
            /\ lp' = Returned(FALSE)
            /\ ai' = ai
    /\ UNCHANGED <<runs, notLoop>>

\* Mutant of RateLimitWait: the wait grows by 10 seconds with each attempt
RateLimitWaitLinear(attempt) == (attempt + 1) * RateLimitBaseWait

\* wait_time = (2 ** attempt) * 10
RateLimitWait(attempt) == Pow2(attempt) * RateLimitBaseWait

\* The rest of the pass after run_ai_prompt has returned a text
IterationDone(marker) ==
    LET tasks == [lp.tasks EXCEPT !.completed[lp.next_idx] = TRUE]
        iteration == lp.iteration + 1
        delay == IF iteration < lp.max_iterations THEN IterationDelay ELSE 0
    IN  IF marker
        THEN /\ disk' = [disk EXCEPT !.tasks_file = tasks, !.progress_file = AppendProgress(disk.progress_file, [kind |-> "COMPLETED", task |-> lp.next_idx])]
             /\ lp' = [lp EXCEPT !.pc = "head", !.tasks = tasks, !.iteration = iteration, !.delay = delay]
        ELSE /\ disk' = [disk EXCEPT !.progress_file = AppendProgress(disk.progress_file, [kind |-> "Progress", task |-> lp.next_idx])]
             /\ lp' = [lp EXCEPT !.pc = "head", !.iteration = iteration, !.delay = delay]

\* One attempt of run_ai_prompt, and what run_loop does when run_ai_prompt
\* ends with it
Attempt(outcome) ==
    /\ lp.pc = "attempt"
    /\ ai.attempt < MaxRetries
    /\ CASE outcome \in {"TASK_COMPLETE", "in_progress"} ->
                /\ ai' = [attempt |-> ai.attempt + 1, waits |-> ai.waits, outcome |-> "returned"]
                /\ IterationDone(outcome = "TASK_COMPLETE")
         [] outcome = "RateLimitError" ->
                IF ai.attempt + 1 < MaxRetries
                THEN /\ ai' = [attempt |-> ai.attempt + 1, waits |-> Append(ai.waits, RateLimitWait(ai.attempt)), outcome |-> "none"]
                     /\ UNCHANGED <<disk, lp>>
                ELSE \* the loop ends: run_ai_prompt returns None
                     /\ ai' = [attempt |-> ai.attempt + 1, waits |-> Append(ai.waits, RateLimitWait(ai.attempt)), outcome |-> "None"]
                     /\ disk' = [disk EXCEPT !.status_file = UpdateStatus("error", CompletedCount(lp.tasks), lp.total_tasks, lp.next_idx, "API failure")]
                     /\ lp' = Returned(FALSE)
         [] outcome = "APIError" ->
                IF ai.attempt = MaxRetries - 1
                THEN /\ ai' = [attempt |-> ai.attempt + 1, waits |-> ai.waits, outcome |-> "APIError"]
                     /\ LoopFails("APIError")
                ELSE /\ ai' = [attempt |-> ai.attempt + 1, waits |-> Append(ai.waits, ApiErrorWait), outcome |-> "none"]
                     /\ UNCHANGED <<disk, lp>>
    /\ UNCHANGED <<runs, notLoop>>

StartLoop == \E n \in 0..MaxTasks, m \in 0..MaxIterationsArg, key \in BOOLEAN : MainRun(n, m, key)

CallApi == \E outcome \in ApiOutcomes : Attempt(outcome)

LoopInit ==
    /\ NewEngine
    /\ rt = NoRoundTrip
    /\ cv = NoCurveQuery
    /\ NewLoop
    /\ NewScanner

LoopNext ==
    \/ MainReset
    \/ StartLoop
    \/ LoopHead
    \/ CallApi

LoopSpec == LoopInit /\ [][LoopNext]_allVars

-----------------------------------------------------------------------------
(* telegram_bot.py: TelegramTokenBot.handle_message and analyze_token, and  *)
(* WebSocketBridge.handler and send_alert.                                  *)
(*                                                                         *)
(* Every message and every websocket connection is handled by a task of    *)
(* its own on one event loop: a task runs alone from one await to the next *)
(* and the tasks interleave at the awaits.  One action is the code of a    *)
(* task from one await to the next.  The health-check echo of the          *)
(* connection handler changes no state and is left out.                    *)

\* self.analysis_cooldown, in seconds
AnalysisCooldown == 60

\* The time that passes in one step of the clock, in seconds
ClockStep == 30

\* str.lower(): "0xAB" and "0xab" are two spellings of one EVM address
Lower(address) == IF address = "0xAB" THEN "0xab" ELSE address

Token(address, chain) == [address |-> address, chain |-> chain]

\* What detect_tokens returns for the messages that arrive: list(set(tokens))
Detections ==
    { << >>,
      << Token("0xAB", "ethereum") >>,
      << Token("0xab", "ethereum") >>,
      << Token("0xab", "bsc"), Token("So1", "solana") >> }

Decisions == {"BUY", "NOT_BUY"}

\* token_key = f"{chain}:{address}"
TokenKey(token) == << token.chain, token.address >>

\* TokenDatabase.is_analyzed(address)
IsAnalyzed(address) == Lower(address) \in db

\* if token_key in self.last_analysis and elapsed < self.analysis_cooldown
RateLimited(token) ==
    /\ TokenKey(token) \in DOMAIN last_analysis
    /\ now - last_analysis[TokenKey(token)] < AnalysisCooldown

\* analyze_token returns before its first await
Skipped(token) == IsAnalyzed(token.address) \/ RateLimited(token)

\* The rest of `for address, chain in detected_tokens` from the first token
\* that is not skipped: the skipped ones return without an await
RECURSIVE FromFirstAnalyzed(_)
FromFirstAnalyzed(tokens) ==
    IF tokens = << >> THEN << >>
    ELSE IF Skipped(tokens[1]) THEN FromFirstAnalyzed(Tail(tokens))
    ELSE tokens

NoIteration == [size |-> 0, snapshot |-> {}, current |-> 0, visited |-> {}, disconnected |-> {}, decision |-> "None"]

HandlerTask(pc_, tokens, it) == [pc |-> pc_, tokens |-> tokens, it |-> it]

\* The loop over the detected tokens goes on with `tokens`, up to the await
\* of fetch_metrics in analyze_token or to the end of handle_message
Proceed(h, tokens) ==
    LET rest == FromFirstAnalyzed(tokens)
    IN  IF rest = << >>
        THEN /\ handlers' = [handlers EXCEPT ![h] = HandlerTask("done", << >>, NoIteration)]
             /\ UNCHANGED <<last_analysis, log>>
        ELSE /\ handlers' = [handlers EXCEPT ![h] = HandlerTask("fetch", rest, NoIteration)]
             /\ last_analysis' = (TokenKey(rest[1]) :> now) @@ last_analysis
             /\ log' = Append(log, rest[1].address)

\* Telethon starts handle_message for a new message: up to `await event.get_chat()`
NewMessage(detected) ==
    /\ Len(handlers) < MaxMessages
    /\ handlers' = Append(handlers, HandlerTask("chat", detected, NoIteration))
    /\ UNCHANGED <<db, last_analysis, stats, log, clients, conns, now, notScanner>>

\* handle_message from get_chat to the first await of analyze_token
Detect(h) ==
    /\ handlers[h].pc = "chat"
    /\ stats' = [stats EXCEPT !.tokens_detected = @ + Len(handlers[h].tokens)]
    /\ Proceed(h, handlers[h].tokens)
    /\ UNCHANGED <<db, clients, conns, now, notScanner>>

\* fetch_metrics returns: up to the await of self.ai.analyze_token
MetricsFetched(h) ==
    /\ handlers[h].pc = "fetch"
    /\ handlers' = [handlers EXCEPT ![h].pc = "ai"]
    /\ UNCHANGED <<db, last_analysis, stats, log, clients, conns, now, notScanner>>

\* The end of send_alert and the rest of analyze_token after it
AlertSent(h, decision, tokens) ==
    /\ stats' = [stats EXCEPT !.tokens_analyzed = @ + (IF handlers[h].pc = "ai" THEN 1 ELSE 0),
                              !.alerts_sent = @ + 1,
                              !.buy_signals = @ + (IF decision = "BUY" THEN 1 ELSE 0)]
    /\ Proceed(h, Tail(tokens))

\* self.ai.analyze_token returns a decision: the analysis is saved and
\* send_alert runs up to its first `await client.send`
Analyzed(h, decision) ==
    /\ handlers[h].pc = "ai"
    /\ db' = db \cup {Lower(handlers[h].tokens[1].address)}
    /\ IF clients = {}
       THEN /\ AlertSent(h, decision, handlers[h].tokens)
            /\ UNCHANGED clients
       ELSE /\ \E first \in clients :
                   handlers' = [handlers EXCEPT ![h] = HandlerTask("send", handlers[h].tokens,
                       [size |-> Cardinality(clients), snapshot |-> clients, current |-> first,
                        visited |-> {first}, disconnected |-> {}, decision |-> decision])]
            /\ stats' = [stats EXCEPT !.tokens_analyzed = @ + 1]
            /\ UNCHANGED <<last_analysis, log, clients>>
    /\ UNCHANGED <<conns, now, notScanner>>

\* client.send returns or raises, and `for client in self.clients` takes its
\* next client: a set that has changed size raises RuntimeError, which
\* handle_message catches and logs
Sent(h) ==
    /\ handlers[h].pc = "send"
    /\ LET it == handlers[h].it
           disconnected == IF conns[it.current] = "open" THEN it.disconnected
                           ELSE it.disconnected \cup {it.current}
           pending == clients \ it.visited
       IN  IF Cardinality(clients) # it.size
           THEN /\ handlers' = [handlers EXCEPT ![h] = HandlerTask("RuntimeError", handlers[h].tokens, [it EXCEPT !.disconnected = disconnected])]
                /\ UNCHANGED <<last_analysis, stats, log, clients>>
           ELSE \/ /\ pending # {}
                   /\ \E next \in pending :
                          handlers' = [handlers EXCEPT ![h].it = [it EXCEPT !.current = next, !.visited = @ \cup {next}, !.disconnected = disconnected]]
                   /\ UNCHANGED <<last_analysis, stats, log, clients>>
                \/ /\ pending = {} \/ clients # it.snapshot
                   /\ clients' = clients \ disconnected
                   /\ AlertSent(h, it.decision, handlers[h].tokens)
    /\ UNCHANGED <<db, conns, now, notScanner>>

\* WebSocketBridge.handler starts for a new connection: up to the await of
\* the first message
Connected(w) ==
    /\ conns[w] = "none"
    /\ clients' = clients \cup {w}
    /\ conns' = [conns EXCEPT ![w] = "open"]
    /\ UNCHANGED <<db, last_analysis, stats, log, handlers, now, notScanner>>

\* The connection closes; its handler has not run yet
ConnectionClosed(w) ==
    /\ conns[w] = "open"
    /\ conns' = [conns EXCEPT ![w] = "closing"]
    /\ UNCHANGED <<db, last_analysis, stats, log, handlers, clients, now, notScanner>>

\* The handler leaves `async for`: finally: self.clients.remove(websocket),
\* which raises KeyError for a websocket that is not in the set
HandlerExit(w) ==
    /\ conns[w] = "closing"
    /\ IF w \in clients
       THEN /\ clients' = clients \ {w}
            /\ conns' = [conns EXCEPT ![w] = "closed"]
       ELSE /\ clients' = clients
            /\ conns' = [conns EXCEPT ![w] = "KeyError"]
    /\ UNCHANGED <<db, last_analysis, stats, log, handlers, now, notScanner>>

\* Time passes
Tick ==
    /\ now + ClockStep <= MaxClock
    /\ now' = now + ClockStep
    /\ UNCHANGED <<db, last_analysis, stats, log, handlers, clients, conns, notScanner>>

Receive == \E detected \in Detections : NewMessage(detected)

HandleMessage == \E h \in 1..Len(handlers) : Detect(h) \/ MetricsFetched(h)

AnalyzeToken == \E h \in 1..Len(handlers), decision \in Decisions : Analyzed(h, decision)

SendAlert == \E h \in 1..Len(handlers) : Sent(h)

Handler == \E w \in Websockets : Connected(w) \/ ConnectionClosed(w) \/ HandlerExit(w)

ScannerInit ==
    /\ NewEngine
    /\ rt = NoRoundTrip
    /\ cv = NoCurveQuery
    /\ NewLoop
    /\ NewScanner

ScannerNext ==
    \/ Receive
    \/ HandleMessage
    \/ AnalyzeToken
    \/ SendAlert
    \/ Handler
    \/ Tick

ScannerSpec == ScannerInit /\ [][ScannerNext]_allVars

-----------------------------------------------------------------------------
(* Vocabulary of the properties *)

InRun == pc \in {"buy", "exit", "calc"}

OpenIds == { positions[k].pid : k \in 1..Len(positions) }

ClosedIds == { closed_positions[k].pid : k \in 1..Len(closed_positions) }

BoughtIds == { trades[k].pid : k \in { n \in 1..Len(trades) : trades[n].trade_type = "BUY" } }

SoldAt(pid) == { n \in 1..Len(trades) : trades[n].trade_type = "SELL" /\ trades[n].pid = pid }

\* The exit loop is about to evaluate a position
Evaluating == pc = "exit" /\ j <= Len(snapshot)

\* The position the exit loop is about to evaluate
EvalPos == positions[IndexOf(positions, snapshot[j])]

\* The exit loop has just closed a position, at the launch data[i]
JustClosed ==
    /\ pc = "exit"
    /\ j > 1
    /\ closed_positions # << >>
    /\ closed_positions[Len(closed_positions)].pid = snapshot[j - 1]

LastClosed == closed_positions[Len(closed_positions)]

\* The current price of the launch being simulated (0: none)
CurrentPrice == GetPriceAtTime(data[i], data[i].timestamp)

-----------------------------------------------------------------------------
\* C1: every position ever created is in exactly one of the open set and the
\* closed list; a position only moves from open to closed, a closed position
\* never comes back to the open set and is never closed a second time.
C1_Partition ==
    /\ OpenIds \cap ClosedIds = {}
    /\ Cardinality(OpenIds) = Len(positions)
    /\ Cardinality(ClosedIds) = Len(closed_positions)
    /\ BoughtIds = OpenIds \cup ClosedIds
    /\ \A k \in 1..Len(positions) : positions[k].exit_time = NoField
    /\ \A k \in 1..Len(closed_positions) :
          /\ closed_positions[k].exit_time # NoField
          /\ Cardinality(SoldAt(closed_positions[k].pid)) = 1

C1_Moves ==
    InRun =>
        /\ ClosedIds \subseteq ClosedIds'
        /\ OpenIds' \cap ClosedIds = {}
        /\ (OpenIds \ OpenIds') \subseteq (ClosedIds' \ ClosedIds)
        /\ (ClosedIds' \ ClosedIds) \subseteq OpenIds
        /\ Len(closed_positions') >= Len(closed_positions)
        /\ SubSeq(closed_positions', 1, Len(closed_positions)) = closed_positions

C1_OpenThenClosed == [](C1_Partition) /\ [][C1_Moves]_vars

\* C1 witness: at the start of a launch, one position is closed and another is open
C1_Witness ==
    /\ pc = "buy"
    /\ closed_positions # << >>
    /\ positions # << >>

-----------------------------------------------------------------------------
\* C2: the exit conditions are checked in the order take profit, stop loss,
\* trailing stop, max hold time; the reason reported is the first condition of
\* that order that holds, and the position stays open when none holds.
ExitReasons == << "Take profit", "Stop loss", "Trailing stop", "Max hold time" >>

ConditionHolds(n, position, launch, bot) ==
    LET price == FromInt(GetPriceAtTime(launch, launch.timestamp))
        gain == RMul(RDiv(RSub(RMul(position.entry_amount_tokens, price),
                               position.entry_amount_sol),
                          position.entry_amount_sol), FromInt(100))
        top == IF RGt(price, position.peak_price) THEN price ELSE position.peak_price
    IN  CASE n = 1 -> RGe(gain, FromInt(bot.take_profit_pct))
          [] n = 2 -> RLe(gain, FromInt(-bot.stop_loss_pct))
          [] n = 3 -> RGe(RMul(RSub(top, price), FromInt(100)),
                          RMul(top, FromInt(bot.trailing_stop_pct)))
          [] n = 4 -> launch.timestamp - position.entry_time
                          >= 60 * bot.max_position_age_minutes

C2_Step ==
    (Evaluating /\ CurrentPrice # 0) =>
        LET p == EvalPos
            holding == { n \in 1..4 : ConditionHolds(n, p, data[i], config.bot_config) }
        IN  IF holding = {}
            THEN /\ p.pid \in OpenIds'
                 /\ closed_positions' = closed_positions
                 /\ trades' = trades
            ELSE LET first == CHOOSE n \in holding : \A m \in holding : n <= m
                     q == closed_positions'[Len(closed_positions')]
                 IN  /\ p.pid \notin OpenIds'
                     /\ Len(closed_positions') = Len(closed_positions) + 1
                     /\ q.pid = p.pid
                     /\ q.exit_reason = ExitReasons[first]
                     /\ Len(trades') = Len(trades) + 1
                     /\ trades'[Len(trades')].reason = ExitReasons[first]

C2_FirstConditionWins == [][C2_Step]_vars

\* C2 witness: a position has just been closed at a launch where two of the
\* conditions hold for it, and the reason is the one of higher priority
C2_Witness ==
    /\ JustClosed
    /\ \E n \in 1..3 :
          /\ LastClosed.exit_reason = ExitReasons[n]
          /\ \E m \in (n + 1)..4 : ConditionHolds(m, LastClosed, data[i], config.bot_config)

-----------------------------------------------------------------------------
\* C3: the number of open positions never exceeds max_concurrent_positions; a
\* position is opened only when the number of open positions is strictly below it.
C3_Bounded ==
    InRun => Len(positions) <= config.max_concurrent_positions

C3_Admission ==
    Len(positions') > Len(positions) =>
        /\ Len(positions) < config.max_concurrent_positions
        /\ Len(positions') = Len(positions) + 1

C3_MaxConcurrent == [](C3_Bounded) /\ [][C3_Admission]_vars

\* C3 witness: the open set is full and a launch that passes the filters, with
\* capital and a price at hand, has just been refused
C3_Witness ==
    /\ pc = "exit"
    /\ j = 1
    /\ Len(positions) = config.max_concurrent_positions
    /\ i \notin OpenIds
    /\ ShouldBuyToken(data[i], config.bot_config)
    /\ RGe(capital, FromInt(config.bot_config.buy_amount_sol))
    /\ GetPriceAtTime(data[i], data[i].timestamp + config.execution_delay_seconds) # 0

-----------------------------------------------------------------------------
\* C4: a launch with initial liquidity below min_initial_liquidity_sol, or with
\* an initial market cap above max_initial_market_cap_sol, never gets a BUY
\* trade or a position; a launch without a market-cap field counts as market
\* cap 0 and is not held back by the market-cap filter.
LaunchBlocked(launch, bot) ==
    \/ launch.initial_liquidity_sol < bot.min_initial_liquidity_sol
    \/ /\ launch.initial_market_cap_sol # NoField
       /\ launch.initial_market_cap_sol > bot.max_initial_market_cap_sol

C4_NoBlockedBuy ==
    \A pid \in BoughtIds \cup OpenIds \cup ClosedIds :
        ~LaunchBlocked(data[pid], config.bot_config)

EntryPriceAt(launch) ==
    GetPriceAtTime(launch, launch.timestamp + config.execution_delay_seconds)

C4_NoCapField ==
    ( /\ pc = "buy"
      /\ data[i].initial_market_cap_sol = NoField
      /\ data[i].initial_liquidity_sol >= config.bot_config.min_initial_liquidity_sol
      /\ Len(positions) < config.max_concurrent_positions
      /\ RGe(capital, FromInt(config.bot_config.buy_amount_sol))
      /\ EntryPriceAt(data[i]) # 0 )
    => /\ i \in OpenIds'
       /\ Len(trades') = Len(trades) + 1
       /\ trades'[Len(trades')].trade_type = "BUY"
       /\ trades'[Len(trades')].pid = i

C4_EntryFilters == [](C4_NoBlockedBuy) /\ [][C4_NoCapField]_vars

\* C4 witness: a position of a launch without a market-cap field is open, and
\* a launch that only the filters hold back has just been passed over
C4_Witness ==
    /\ pc = "exit"
    /\ j = 1
    /\ LaunchBlocked(data[i], config.bot_config)
    /\ Len(positions) < config.max_concurrent_positions
    /\ RGe(capital, FromInt(config.bot_config.buy_amount_sol))
    /\ EntryPriceAt(data[i]) # 0
    /\ i \notin BoughtIds
    /\ \E pid \in OpenIds : data[pid].initial_market_cap_sol = NoField

-----------------------------------------------------------------------------
\* C5: when buy_amount_sol exceeds the remaining capital, or no entry price is
\* resolved, the buy is skipped without an error: capital, the open positions
\* and the trade log are unchanged, and the run goes on with the exit
\* evaluation of the same launch.
C5_Step ==
    ( /\ pc = "buy"
      /\ \/ RGt(FromInt(config.bot_config.buy_amount_sol), capital)
         \/ EntryPriceAt(data[i]) = 0 )
    => /\ capital' = capital
       /\ positions' = positions
       /\ trades' = trades
       /\ closed_positions' = closed_positions
       /\ pc' = "exit"
       /\ i' = i
       /\ j' = 1
       /\ snapshot' = [k \in 1..Len(positions) |-> positions[k].pid]

C5_SkippedBuy == [][C5_Step]_vars

\* C5 witness: a launch that passes the filters, with room in the open set, has
\* just been skipped because the capital left is below the buy amount
C5_Witness ==
    /\ pc = "exit"
    /\ j = 1
    /\ ShouldBuyToken(data[i], config.bot_config)
    /\ Len(positions) < config.max_concurrent_positions
    /\ RLt(capital, FromInt(config.bot_config.buy_amount_sol))
    /\ EntryPriceAt(data[i]) # 0
    /\ i \notin BoughtIds
    /\ snapshot # << >>

-----------------------------------------------------------------------------
\* C6: on every exit, in one step: the exit time is the launch timestamp plus
\* the execution delay, the exit price is the resolved price with the sell
\* slippage applied, capital is credited with entry_amount_tokens x exit price,
\* pnl_sol = exit_amount_sol - entry_amount_sol, the position moves from open
\* to closed, and exactly one SELL record of that position is appended.
SellFactor ==
    CASE config.mode = "realistic" -> Rat(100 - config.slippage_pct, 100)
      [] config.mode = "pessimistic" -> Rat(100 - 2 * config.slippage_pct, 100)
      [] OTHER -> FromInt(1)

\* The price an exit at the launch resolves to: the price at the exit time, or
\* the assumed loss against the entry price when there is none
ResolvedExitPrice(position, launch) ==
    LET at_exit == GetPriceAtTime(launch, launch.timestamp + config.execution_delay_seconds)
    IN  IF at_exit = 0 THEN RMul(position.entry_price, Rat(9, 10)) ELSE FromInt(at_exit)

C6_Step ==
    (InRun /\ OpenIds \ OpenIds' # {}) =>
        /\ Evaluating
        /\ LET p == EvalPos
               q == closed_positions'[Len(closed_positions')]
               t == trades'[Len(trades')]
           IN  /\ OpenIds' = OpenIds \ {p.pid}
               /\ Len(positions') = Len(positions) - 1
               /\ closed_positions' = Append(closed_positions, q)
               /\ q.pid = p.pid
               /\ q.entry_price = p.entry_price
               /\ q.entry_amount_sol = p.entry_amount_sol
               /\ q.entry_amount_tokens = p.entry_amount_tokens
               /\ q.exit_time = data[i].timestamp + config.execution_delay_seconds
               /\ q.exit_price = RMul(ResolvedExitPrice(p, data[i]), SellFactor)
               /\ q.exit_amount_sol = RMul(p.entry_amount_tokens, q.exit_price)
               /\ capital' = RAdd(capital, RMul(p.entry_amount_tokens, q.exit_price))
               /\ q.pnl_sol = RSub(q.exit_amount_sol, p.entry_amount_sol)
               /\ trades' = Append(trades, t)
               /\ t.trade_type = "SELL"
               /\ t.pid = p.pid
               /\ t.token_mint = p.token_mint
               /\ t.timestamp = q.exit_time
               /\ t.price = q.exit_price
               /\ t.amount_sol = q.exit_amount_sol
               /\ t.amount_tokens = p.entry_amount_tokens

C6_ExitBookkeeping == [][C6_Step]_vars

\* C6 witness: a position has just been closed in a mode that applies slippage,
\* at a price other than its entry price
C6_Witness ==
    /\ JustClosed
    /\ config.mode # "optimistic"
    /\ Cardinality(SoldAt(LastClosed.pid)) = 1
    /\ LastClosed.pnl_sol.num # 0

-----------------------------------------------------------------------------
\* C7: peak_price starts at the entry price and never decreases while the
\* position is open: it is the maximum of the entry price and of every current
\* price the position has been evaluated at.
RMax(a, b) == IF RGt(b, a) THEN b ELSE a

RECURSIVE MaxWith(_, _)
MaxWith(m, S) ==
    IF S = {} THEN m
    ELSE LET c == CHOOSE x \in S : TRUE
         IN  MaxWith(RMax(m, FromInt(c)), S \ {c})

C7_PeakIsMax ==
    /\ \A k \in 1..Len(positions) :
          positions[k].peak_price = MaxWith(positions[k].entry_price, seen[positions[k].pid])
    /\ \A k \in 1..Len(closed_positions) :
          closed_positions[k].peak_price =
              MaxWith(closed_positions[k].entry_price, seen[closed_positions[k].pid])

C7_NeverDecreases ==
    InRun =>
        /\ \A k \in 1..Len(positions), m \in 1..Len(positions') :
              positions'[m].pid = positions[k].pid
                  => RGe(positions'[m].peak_price, positions[k].peak_price)
        /\ \A m \in 1..Len(positions') :
              positions'[m].pid \notin OpenIds
                  => positions'[m].peak_price = positions'[m].entry_price

C7_PeakPrice == [](C7_PeakIsMax) /\ [][C7_NeverDecreases]_vars

\* C7 witness: an open position has a peak above its entry price and has since
\* been evaluated at a lower price
C7_Witness ==
    /\ pc = "exit"
    /\ j > 1
    /\ \E k \in 1..Len(positions) :
          /\ positions[k].pid = snapshot[j - 1]
          /\ RGt(positions[k].peak_price, positions[k].entry_price)
          /\ CurrentPrice # 0
          /\ RLt(FromInt(CurrentPrice), positions[k].peak_price)

-----------------------------------------------------------------------------
\* C8 (as stated): with trailing_stop_pct = 10 and take_profit_pct = 50, a
\* position evaluated at a price 25% above its entry price stays open, and
\* evaluated next at a price 10% below that peak it is closed with the reason
\* trailing stop, not take profit.
ScenarioC == config.bot_config.trailing_stop_pct = 10 /\ config.bot_config.take_profit_pct = 50

\* The position under evaluation sees a price 25% above its entry price, the
\* highest price it has seen
Rose25 ==
    /\ Evaluating
    /\ CurrentPrice # 0
    /\ RMul(FromInt(CurrentPrice), FromInt(4)) = RMul(EvalPos.entry_price, FromInt(5))
    /\ RLe(EvalPos.peak_price, FromInt(CurrentPrice))

\* The position under evaluation has a peak 25% above its entry price and sees
\* a price 10% below that peak
Fell10 ==
    /\ Evaluating
    /\ CurrentPrice # 0
    /\ RMul(EvalPos.peak_price, FromInt(4)) = RMul(EvalPos.entry_price, FromInt(5))
    /\ RMul(FromInt(CurrentPrice), FromInt(10)) = RMul(EvalPos.peak_price, FromInt(9))

StaysOpen(pid) ==
    /\ pid \in OpenIds'
    /\ closed_positions' = closed_positions
    /\ trades' = trades

ClosedWith(pid, reason) ==
    /\ pid \notin OpenIds'
    /\ Len(closed_positions') = Len(closed_positions) + 1
    /\ closed_positions'[Len(closed_positions')].pid = pid
    /\ closed_positions'[Len(closed_positions')].exit_reason = reason

Aged(position, launch) ==
    launch.timestamp - position.entry_time >= 60 * config.bot_config.max_position_age_minutes

C8_AsStated_Step ==
    ScenarioC =>
        /\ Rose25 => StaysOpen(EvalPos.pid)
        /\ Fell10 => ClosedWith(EvalPos.pid, "Trailing stop")

C8_Amended_Step ==
    ScenarioC =>
        /\ (Rose25 /\ ~Aged(EvalPos, data[i])) => StaysOpen(EvalPos.pid)
        /\ (Rose25 /\ Aged(EvalPos, data[i])) => ClosedWith(EvalPos.pid, "Max hold time")
        /\ Fell10 => ClosedWith(EvalPos.pid, "Trailing stop")

-----------------------------------------------------------------------------
\* C9: a position that only ever sees its entry price is closed with the reason
\* max hold time at the first launch at which the minutes since its entry time
\* reach max_position_age_minutes, and no rule closes it before.
UnchangedPrice ==
    /\ Evaluating
    /\ CurrentPrice # 0
    /\ FromInt(CurrentPrice) = EvalPos.entry_price
    /\ seen[EvalPos.pid] \subseteq {CurrentPrice}

C9_Step ==
    UnchangedPrice =>
        IF Aged(EvalPos, data[i])
        THEN ClosedWith(EvalPos.pid, "Max hold time")
        ELSE StaysOpen(EvalPos.pid)

C9_MaxHoldTime == [][C9_Step]_vars

\* C9 witness: a position opened at an earlier launch, evaluated only at its
\* entry price, has just been closed by the max hold time
C9_Witness ==
    /\ JustClosed
    /\ LastClosed.exit_reason = "Max hold time"
    /\ LastClosed.pid < i
    /\ seen[LastClosed.pid] = {CurrentPrice}
    /\ FromInt(CurrentPrice) = LastClosed.entry_price
    /\ Aged(LastClosed, data[i])
    /\ LastClosed.pnl_pct.num = 0

-----------------------------------------------------------------------------
\* C10: when a position is exited at a launch whose price history is missing,
\* the exit price is the assumed loss of 10% against the entry price (0.9 x
\* entry price, before the sell slippage), and the run goes on to return a
\* result.
Exiting == InRun /\ OpenIds \ OpenIds' # {}

C10_AssumedLoss_Step ==
    (Exiting /\ data[i].price_history = << >>) =>
        closed_positions'[Len(closed_positions')].exit_price =
            RMul(RMul(EvalPos.entry_price, Rat(9, 10)), SellFactor)

\* Position in the run: launches done, then the half of the launch, then the
\* positions evaluated
RunRank ==
    (MaxLaunches + 5) * i
        + (IF pc = "buy" THEN 0 ELSE IF pc = "exit" THEN 1 + j ELSE MaxLaunches + 4)

RunAdvances ==
    InRun =>
        /\ pc' \in {"buy", "exit", "calc", "done"}
        /\ i' <= Len(data)
        /\ (pc' # "done" => RunRank' > RunRank)
        /\ (pc' = "done" => results'.returned /\ results'.ending_capital_sol = capital)

\* Nothing the next step of the run needs is missing: the launch, the position
\* to evaluate, and non-zero divisors
RunNeverStuck ==
    InRun =>
        /\ i \in 1..Len(data)
        /\ pc = "exit" => (j >= 1 /\ \A n \in j..Len(snapshot) : snapshot[n] \in OpenIds)
        /\ \A k \in 1..Len(positions) :
              /\ positions[k].entry_amount_sol.num # 0
              /\ positions[k].peak_price.num # 0

C10_AssumedLossOnMissingHistory ==
    [](RunNeverStuck) /\ [][C10_AssumedLoss_Step /\ RunAdvances]_vars

\* What the engine does: the assumed loss is taken when the price resolved at
\* the exit time is zero; a missing price history resolves to the initial price
\* of the launch, or to the default price, and the position is sold at that
\* price.  The run goes on to return a result.
ExitPriceResolution_Step ==
    Exiting =>
        LET q == closed_positions'[Len(closed_positions')]
            at_exit == GetPriceAtTime(data[i], data[i].timestamp + config.execution_delay_seconds)
        IN  /\ at_exit = 0 =>
                  q.exit_price = RMul(RMul(EvalPos.entry_price, Rat(9, 10)), SellFactor)
            /\ data[i].price_history = << >> =>
                  /\ at_exit # 0
                  /\ at_exit = IF data[i].initial_price = NoField
                               THEN DefaultPrice ELSE data[i].initial_price
                  /\ q.exit_price = RMul(FromInt(at_exit), SellFactor)

ExitPriceResolution ==
    [](RunNeverStuck) /\ [][ExitPriceResolution_Step /\ RunAdvances]_vars

\* A run has returned a result that holds a position closed at a launch with
\* no price at the exit time, at the assumed loss
AssumedLossTaken ==
    /\ pc = "done"
    /\ results.returned
    /\ \E k \in 1..Len(results.positions) :
          LET q == results.positions[k]
          IN  /\ \E n \in 1..Len(data) :
                    /\ data[n].timestamp + config.execution_delay_seconds = q.exit_time
                    /\ GetPriceAtTime(data[n], q.exit_time) = 0
                    /\ GetPriceAtTime(data[n], data[n].timestamp) # 0
              /\ q.exit_price = RMul(RMul(q.entry_price, Rat(9, 10)), SellFactor)

\* A position has just been sold at a launch without price history
SoldWithoutHistory ==
    /\ JustClosed
    /\ data[i].price_history = << >>

-----------------------------------------------------------------------------
\* C11: for a non-empty price series and any query time, _get_price_at_time
\* returns the price of the sample at minimum absolute time difference, the
\* first such sample of the series on ties; for an empty series it returns
\* the launch's initial_price when the record has one and the default price
\* constant otherwise; the entry price of a buy is resolved this way.

\* Query times around the launch timestamp: before, at and after the samples
QueryOffsets == -2..6

\* Price of the first sample of ph at minimum distance of t
NearestFirst(ph, t) ==
    LET best == CHOOSE k \in 1..Len(ph) :
                   /\ \A m \in 1..Len(ph) : Abs(ph[k].time - t) <= Abs(ph[m].time - t)
                   /\ \A m \in 1..(k - 1) : Abs(ph[m].time - t) > Abs(ph[k].time - t)
    IN  ph[best].price

LookupValue(launch, t) ==
    IF launch.price_history # << >> THEN NearestFirst(launch.price_history, t)
    ELSE IF launch.initial_price # NoField THEN launch.initial_price
    ELSE DefaultPrice

C11_Lookup ==
    \A n \in 1..Len(historical_data) : \A o \in QueryOffsets :
        LET launch == historical_data[n]
        IN  GetPriceAtTime(launch, launch.timestamp + o) = LookupValue(launch, launch.timestamp + o)

C11_EntryLookup ==
    (pc = "buy" /\ Len(positions') > Len(positions)) =>
        LET position == positions'[Len(positions')]
            launch == data[i]
        IN  position.entry_price =
                RMul(FromInt(LookupValue(launch, launch.timestamp + config.execution_delay_seconds)),
                     BuySlippage(config))

C11_NearestSample == [](C11_Lookup) /\ [][C11_EntryLookup]_vars

\* C11 as stated: an empty series always gives the default price constant
C11_AsStated ==
    \A n \in 1..Len(historical_data) : \A o \in QueryOffsets :
        LET launch == historical_data[n]
        IN  GetPriceAtTime(launch, launch.timestamp + o) =
                IF launch.price_history # << >>
                THEN NearestFirst(launch.price_history, launch.timestamp + o)
                ELSE DefaultPrice

\* A position was bought at a query time with two samples at the same minimum
\* distance and different prices, in a data set that also has a launch
\* without price history
C11_Witness ==
    /\ \E k \in 1..Len(positions) :
          LET ph == data[positions[k].pid].price_history
          IN  \E a, b \in 1..Len(ph) :
                /\ a < b
                /\ ph[a].price # ph[b].price
                /\ Abs(ph[a].time - positions[k].entry_time) = Abs(ph[b].time - positions[k].entry_time)
                /\ \A m \in 1..Len(ph) :
                      Abs(ph[a].time - positions[k].entry_time) <= Abs(ph[m].time - positions[k].entry_time)
    /\ \E n \in 1..Len(historical_data) : historical_data[n].price_history = << >>

-----------------------------------------------------------------------------
\* C12: slippage is applied multiplicatively by mode: optimistic leaves the
\* buy and the sell price unchanged, realistic multiplies the buy price by
\* 1 + slippage_pct/100 and the sell price by 1 - slippage_pct/100, pessimistic
\* uses twice slippage_pct; in every mode the entry price is at least the
\* resolved price and the exit price is at most the resolved price.
BuyFactor ==
    CASE config.mode = "realistic" -> Rat(100 + config.slippage_pct, 100)
      [] config.mode = "pessimistic" -> Rat(100 + 2 * config.slippage_pct, 100)
      [] OTHER -> FromInt(1)

ResolvedEntryPrice(launch) ==
    FromInt(GetPriceAtTime(launch, launch.timestamp + config.execution_delay_seconds))

C12_Buy ==
    (pc = "buy" /\ Len(positions') > Len(positions)) =>
        LET position == positions'[Len(positions')]
            resolved == ResolvedEntryPrice(data[i])
        IN  /\ position.entry_price = RMul(resolved, BuyFactor)
            /\ RGe(position.entry_price, resolved)
            /\ config.mode = "optimistic" => position.entry_price = resolved

C12_Sell ==
    (pc = "exit" /\ Len(closed_positions') > Len(closed_positions)) =>
        LET sold == closed_positions'[Len(closed_positions')]
            resolved == ResolvedExitPrice(EvalPos, data[i])
        IN  /\ sold.exit_price = RMul(resolved, SellFactor)
            /\ RLe(sold.exit_price, resolved)
            /\ config.mode = "optimistic" => sold.exit_price = resolved

C12_Slippage == [][C12_Buy /\ C12_Sell]_vars

\* A position bought and sold in pessimistic mode: its entry price is above
\* the resolved price by twice the slippage and its exit price is below
C12_Witness ==
    /\ JustClosed
    /\ config.mode = "pessimistic"
    /\ config.slippage_pct > 0
    /\ LastClosed.entry_price =
           RMul(FromInt(GetPriceAtTime(data[LastClosed.pid], LastClosed.entry_time)),
                Rat(100 + 2 * config.slippage_pct, 100))
    /\ RLt(LastClosed.exit_price, ResolvedExitPrice(LastClosed, data[i]))

-----------------------------------------------------------------------------
\* C13: in optimistic (zero slippage) mode, a position bought and then sold at
\* the same resolved price has exit_amount_sol equal to entry_amount_sol, so
\* pnl_sol == 0 (and with it pnl_pct == 0), for every buy amount and price.
C13_RoundTrip ==
    rt.stage = "closed" =>
        /\ rt.exit_amount_sol = rt.entry_amount_sol
        /\ rt.pnl_sol_sign = 0

\* Round trips that do come back to the buy amount, and round trips that lose
C13_ExactRoundTrip == rt.stage = "closed" /\ rt.pnl_sol_sign = 0 /\ rt.price = 3

C13_LosingRoundTrip == rt.stage = "closed" /\ rt.pnl_sol_sign < 0

-----------------------------------------------------------------------------
\* C14: running run_backtest twice on the same engine with identical data,
\* config and date range produces identical BacktestResults: a run does not
\* modify the loaded historical data or the config, and no capital, position
\* or trade state carries over from one run to the next.
C14_FreshStart ==
    (Idle /\ pc' = "buy") =>
        /\ capital' = FromInt(config'.starting_capital_sol)
        /\ positions' = << >>
        /\ closed_positions' = << >>
        /\ trades' = << >>

C14_InputsKept ==
    (InRun \/ pc' = "buy") =>
        /\ historical_data' = historical_data
        /\ InRun => config' = config

C14_SameResults ==
    (pc = "calc" /\ prev # NoResults) => results' = prev

C14_Idempotent == [][C14_FreshStart /\ C14_InputsKept /\ C14_SameResults]_vars

\* A run that traded and moved the capital has been repeated with the same
\* arguments and has returned the same results
C14_Witness ==
    /\ pc = "done"
    /\ prev # NoResults
    /\ results = prev
    /\ results.total_trades > 0
    /\ results.ending_capital_sol # results.starting_capital_sol

-----------------------------------------------------------------------------
\* C15: when the historical data is empty after date filtering (including
\* when nothing was loaded), run_backtest fails with the explicit no-data
\* error before any capital, position or trade state is created, and returns
\* no result; with a record in the range it does not fail.
NoDataInRange(sd, ed) ==
    \A n \in 1..Len(historical_data) :
        \/ sd # NoField /\ historical_data[n].timestamp < sd
        \/ ed # NoField /\ historical_data[n].timestamp > ed

C15_Call ==
    (Idle /\ pc' \in {"buy", "error"}) =>
        (pc' = "error" <=> NoDataInRange(start_date', end_date'))

C15_OnlyAtCall == (pc' = "error" /\ pc # "error") => Idle

C15_NothingCreated ==
    pc = "error" =>
        /\ NoDataInRange(start_date, end_date)
        /\ data = << >>
        /\ capital = FromInt(0)
        /\ positions = << >>
        /\ closed_positions = << >>
        /\ trades = << >>
        /\ results = NoResults

C15_NoDataError == [](C15_NothingCreated) /\ [][C15_Call /\ C15_OnlyAtCall]_vars

\* A run on a loaded engine has failed because the date range holds no record
C15_Witness ==
    /\ pc = "error"
    /\ historical_data # << >>
    /\ start_date # NoField

-----------------------------------------------------------------------------
\* C16: when a run ends with no closed position, _calculate_results returns a
\* result, not an error, with total_trades == 0 and every derived metric (win
\* rate, average and largest win/loss, Sharpe ratio, max drawdown, profit
\* factor, average hold time) equal to 0.

C16_Step ==
    (pc = "calc" /\ closed_positions = << >>) =>
        /\ pc' = "done"
        /\ results'.returned
        /\ results'.total_trades = 0
        /\ results'.winning_trades = 0
        /\ results'.losing_trades = 0
        /\ results'.win_rate = Zero
        /\ results'.avg_win_pct = Zero
        /\ results'.avg_loss_pct = Zero
        /\ results'.largest_win_pct = Zero
        /\ results'.largest_loss_pct = Zero
        /\ results'.sharpe_ratio = ZeroSharpe
        /\ results'.max_drawdown_pct = Zero
        /\ results'.profit_factor = Zero
        /\ results'.avg_hold_time_minutes = Zero

C16_ZeroedResults == [][C16_Step]_vars

\* A run has returned without a closed position, with a position still open
C16_Witness ==
    /\ pc = "done"
    /\ results.returned
    /\ closed_positions = << >>
    /\ positions # << >>
    /\ results.total_trades = 0

-----------------------------------------------------------------------------
\* C17: the BacktestResults returned by run_backtest carries the full trade
\* log and closed-position list of the run: results.trades is exactly the
\* sequence of every BUY and SELL record appended during the run, in order,
\* and results.positions is exactly the closed-position list, together with
\* the capital before and after.
C17_Step ==
    pc = "calc" =>
        /\ results'.returned
        /\ results'.trades = trades
        /\ results'.positions = closed_positions
        /\ results'.starting_capital_sol = FromInt(config.starting_capital_sol)
        /\ results'.ending_capital_sol = capital

C17_FullTradeLog == [][C17_Step]_vars

\* The trade log is returned whenever a position was closed
C17_WithClosedPosition_Step ==
    (pc = "calc" /\ closed_positions # << >>) =>
        /\ results'.trades = trades
        /\ results'.positions = closed_positions
        /\ results'.ending_capital_sol = capital

C17_WithClosedPosition == [][C17_WithClosedPosition_Step]_vars

\* A run has returned an empty trade list although it bought
C17_LogDropped ==
    /\ pc = "done"
    /\ trades # << >>
    /\ results.trades = << >>
    /\ RLt(results.ending_capital_sol, results.starting_capital_sol)

-----------------------------------------------------------------------------
\* C18: whatever the order in which launch records are loaded, run_backtest
\* visits each record of the filtered data exactly once, in non-decreasing
\* timestamp order, never revisits an earlier launch, and after the last
\* launch terminates by returning a result.
Chronological(s) ==
    \A a, b \in 1..Len(s) : a < b => s[a].timestamp <= s[b].timestamp

Occurrences(x, s) == Cardinality({ n \in 1..Len(s) : s[n] = x })

\* Loading any sequence of records keeps every record, in timestamp order
C18_LoadSorts ==
    pc = "init" =>
        \A d \in SeqsUpTo(Launches, MaxLaunches) :
            LET h == SortedByTimestamp(d)
            IN  /\ Len(h) = Len(d)
                /\ Chronological(h)
                /\ \A x \in Launches : Occurrences(x, h) = Occurrences(x, d)

\* The run works on the loaded records of the date range, in their order
C18_DataInOrder ==
    /\ Chronological(historical_data)
    /\ InRun =>
          /\ Chronological(data)
          /\ data = SelectSeq(historical_data,
                        LAMBDA d : /\ (start_date = NoField \/ d.timestamp >= start_date)
                                   /\ (end_date = NoField \/ d.timestamp <= end_date))

\* The launches are taken one after the other from the first to the last,
\* each gets one entry decision and one exit loop, and the run then returns
C18_SinglePass ==
    /\ (Idle /\ pc' = "buy") => i' = 1
    /\ (InRun /\ pc' # "done") => (data' = data /\ i' \in {i, i + 1})
    /\ pc = "buy" => (pc' = "exit" /\ i' = i)
    /\ (InRun /\ pc' = "buy") => (pc = "exit" /\ j > Len(snapshot) /\ i' = i + 1)
    /\ (InRun /\ pc # "calc" /\ pc' = "calc") =>
          (pc = "exit" /\ j > Len(snapshot) /\ i = Len(data) /\ i' = i)
    /\ pc = "calc" => (pc' = "done" /\ results'.returned)
    /\ pc' = "done" => pc = "calc"

C18_ChronologicalSinglePass ==
    [](C18_LoadSorts /\ C18_DataInOrder /\ RunNeverStuck)
        /\ [][C18_SinglePass /\ RunAdvances]_vars

\* A run over launches of different timestamps has visited the last one and
\* has returned
C18_Witness ==
    /\ pc = "done"
    /\ results.returned
    /\ i = Len(data)
    /\ Len(data) >= 2
    /\ data[1].timestamp < data[Len(data)].timestamp

-----------------------------------------------------------------------------
\* C19: for a non-empty closed-position list, a position is a winner exactly
\* when pnl_sol > 0 and a loser otherwise, so winning_trades + losing_trades
\* == total_trades, and win_rate is winners divided by total, reported as a
\* percentage (one winner out of two closed positions gives 50).
ProfitCount == Cardinality({ k \in 1..Len(closed_positions) : closed_positions[k].pnl_sol.num > 0 })

C19_Step ==
    (pc = "calc" /\ closed_positions # << >>) =>
        /\ results'.total_trades = Len(closed_positions)
        /\ results'.winning_trades = ProfitCount
        /\ results'.losing_trades = Len(closed_positions) - ProfitCount
        /\ results'.winning_trades + results'.losing_trades = results'.total_trades
        /\ RMul(results'.win_rate, FromInt(Len(closed_positions))) = FromInt(100 * ProfitCount)
        /\ (ProfitCount = 1 /\ Len(closed_positions) = 2) => results'.win_rate = FromInt(50)

C19_WinRate == [][C19_Step]_vars

\* A run has returned with one winner and one loser, the loser having broken even
\* or lost
C19_Witness ==
    /\ pc = "done"
    /\ results.total_trades = 2
    /\ results.winning_trades = 1
    /\ results.losing_trades = 1
    /\ results.win_rate = FromInt(50)

\* A position closed at exactly its entry value is counted as a loser
C19_BreakEvenLoser ==
    /\ pc = "done"
    /\ results.losing_trades > 0
    /\ \E k \in 1..Len(closed_positions) : closed_positions[k].pnl_sol.num = 0

-----------------------------------------------------------------------------
\* C20: _calculate_max_drawdown replays the closed positions in exit-time
\* order from the starting capital, adding each pnl_sol and tracking the
\* running peak, and returns the maximum over the replay of
\* (peak - capital) / peak x 100; it is 0 when capital never falls below its
\* running peak, and for pnl_sol -0.5 then +1.0 on starting capital 10 it
\* reflects the dip to 9.5 (5%).

\* Capital after the first k positions of ps, from the capital start
CapitalAfter(ps, start, k) == RAdd(start, RSum([m \in 1..k |-> ps[m].pnl_sol]))

\* The highest capital up to and including the k-th position
PeakAfter(ps, start, k) == MaxOf([m \in 1..(k + 1) |-> CapitalAfter(ps, start, m - 1)])

DrawdownAfter(ps, start, k) ==
    RMul(RDiv(RSub(PeakAfter(ps, start, k), CapitalAfter(ps, start, k)),
              PeakAfter(ps, start, k)),
         FromInt(100))

\* ps is in exit-time order
ByExitTime(ps) == \A a, b \in 1..Len(ps) : a < b => ps[a].exit_time <= ps[b].exit_time

\* Two closed positions as listed by a caller: the gain of 1.0 first, although
\* the loss of 0.5 was realised before it
ScenarioE ==
    << [pnl_sol |-> FromInt(1), exit_time |-> 120],
       [pnl_sol |-> Rat(-1, 2), exit_time |-> 60] >>

C20_Scenario ==
    /\ CalculateMaxDrawdown(ScenarioE, FromInt(10)) = FromInt(5)
    /\ CalculateMaxDrawdown(<< ScenarioE[2], ScenarioE[1] >>, FromInt(10)) = FromInt(5)
    /\ CalculateMaxDrawdown(<< ScenarioE[1] >>, FromInt(10)) = FromInt(0)

C20_Step ==
    (pc = "calc" /\ closed_positions # << >>) =>
        LET start == FromInt(config.starting_capital_sol)
            n == Len(closed_positions)
        IN  /\ ByExitTime(closed_positions)
            /\ results'.max_drawdown_pct =
                   MaxOf([k \in 1..(n + 1) |->
                            IF k = 1 THEN FromInt(0)
                            ELSE DrawdownAfter(closed_positions, start, k - 1)])
            /\ (\A k \in 1..n : CapitalAfter(closed_positions, start, k)
                                    = PeakAfter(closed_positions, start, k))
                  => results'.max_drawdown_pct = FromInt(0)

C20_MaxDrawdown == [](C20_Scenario) /\ [][C20_Step]_vars

\* A run has returned a positive drawdown: a gain was followed by a loss
C20_Witness ==
    /\ pc = "done"
    /\ Len(closed_positions) >= 2
    /\ closed_positions[1].pnl_sol.num > 0
    /\ closed_positions[2].pnl_sol.num < 0
    /\ results.max_drawdown_pct.num > 0
    /\ RLt(results.max_drawdown_pct, FromInt(100))

\* A run has returned a zero drawdown with closed positions
C20_NoDrawdown ==
    /\ pc = "done"
    /\ closed_positions # << >>
    /\ results.max_drawdown_pct = FromInt(0)

-----------------------------------------------------------------------------
\* C21: degenerate statistics default to 0 instead of raising: the Sharpe
\* ratio is 0 with fewer than 2 closed positions or zero standard deviation of
\* returns, the average win (loss) is 0 when there are no winners (losers),
\* and profit_factor is |avg_win / avg_loss| and is 0 when avg_loss is 0.
RAbs(a) == [num |-> Abs(a.num), den |-> a.den]

\* The returns of the closed positions have zero standard deviation
SameReturns == \A a, b \in 1..Len(closed_positions) : closed_positions[a].pnl_pct = closed_positions[b].pnl_pct

LossCount == Len(closed_positions) - ProfitCount

C21_Step ==
    (pc = "calc") =>
        /\ pc' = "done" /\ results'.returned
        /\ (Len(closed_positions) < 2 \/ SameReturns) => results'.sharpe_ratio.sign = 0
        /\ ProfitCount = 0 => results'.avg_win_pct = Zero
        /\ LossCount = 0 => results'.avg_loss_pct = Zero
        /\ results'.avg_loss_pct = Zero => results'.profit_factor = Zero
        /\ results'.avg_loss_pct # Zero =>
               RMul(results'.profit_factor, RAbs(results'.avg_loss_pct)) = RAbs(results'.avg_win_pct)

C21_DegenerateStatistics == [][C21_Step]_vars

\* A run has returned with two closed positions of equal return, none of them
\* a winner, and an average loss of 0
C21_Witness ==
    /\ pc = "done"
    /\ results.total_trades = 2
    /\ SameReturns
    /\ results.winning_trades = 0
    /\ results.avg_loss_pct = Zero
    /\ results.sharpe_ratio.sign = 0
    /\ results.profit_factor = Zero

\* A run has returned with winners only: the average loss is 0 with no loser
C21_NoLosers ==
    /\ pc = "done"
    /\ results.total_trades > 0
    /\ results.losing_trades = 0
    /\ results.avg_win_pct # Zero
    /\ results.profit_factor = Zero

\* A run has returned with a single closed position of non-zero return
C21_SinglePosition ==
    /\ pc = "done"
    /\ results.total_trades = 1
    /\ results.avg_loss_pct # Zero
    /\ results.sharpe_ratio.sign = 0

\* A run has returned with winners and losers and a profit factor above 0
C21_ProfitFactor ==
    /\ pc = "done"
    /\ results.winning_trades > 0
    /\ results.avg_loss_pct # Zero
    /\ results.profit_factor # Zero

-----------------------------------------------------------------------------
\* C22: for any valid reserve snapshot (not complete, positive virtual
\* reserves), buy(snapshot, x).tokens_out is monotonically increasing in x for
\* x > 0 (it grows with x until it reaches the real token reserves and stays
\* there), the price impact is monotonically increasing in x, and the price
\* impact of a buy is never negative.
C22_Monotonic ==
    (cv.stage = "buy" /\ ValidSnapshot(cv.curve) /\ RGt(cv.buy_amount_sol, Zero)) =>
        /\ cv.response.status = "ok"
        /\ RGe(cv.response.price_impact_pct, Zero)
        /\ \A y \in Amounts :
               RGt(y, cv.buy_amount_sol) =>
                   LET larger == CalculateBuyPrice(cv.curve, y)
                   IN  /\ RGe(larger.tokens_out, cv.response.tokens_out)
                       /\ ~larger.exhausted => RGt(larger.tokens_out, cv.response.tokens_out)
                       /\ RGt(larger.price_impact, cv.response.price_impact_pct)

\* A buy on a valid snapshot was priced below the real token reserves, and a
\* larger buy of the bounds exhausts them
C22_Witness ==
    /\ cv.stage = "buy"
    /\ ValidSnapshot(cv.curve)
    /\ RGt(cv.buy_amount_sol, Zero)
    /\ cv.response.status = "ok"
    /\ ~cv.result.exhausted
    /\ RGt(cv.response.price_impact_pct, Zero)
    /\ \E y \in Amounts : RGt(y, cv.buy_amount_sol) /\ CalculateBuyPrice(cv.curve, y).exhausted

-----------------------------------------------------------------------------
\* C23: a buy of sol_in > 0 yields tokens_out = virtual_token_reserves -
\* k / (virtual_sol_reserves + sol_in), with k the product of the virtual
\* reserves only, and tokens_out never exceeds real_token_reserves: when the
\* unconstrained formula would exceed it, the result is clamped to
\* real_token_reserves and reported as a full-curve-exhaustion case; the
\* snapshot itself is not modified.

\* The amount t = vt - vt * vs / (vs + x), stated as t * (vs + x) = vt * x
OnTheCurve(s, x, t) == RMul(t, RAdd(FromInt(s.virtual_sol_reserves), x)) = RMul(FromInt(s.virtual_token_reserves), x)

\* The amount the constant-product formula gives exceeds the real token reserves
BeyondRealReserves(s, x) == RGt(RMul(FromInt(s.virtual_token_reserves), x), RMul(FromInt(s.real_token_reserves), RAdd(FromInt(s.virtual_sol_reserves), x)))

C23_Unclamped ==
    /\ cv.stage = "buy"
    /\ cv.response.status = "ok"
    /\ ~cv.result.exhausted
    /\ RGt(cv.response.tokens_out, Zero)
    /\ cv.curve.real_token_reserves # cv.curve.virtual_token_reserves

-----------------------------------------------------------------------------
\* C24: curve pricing requested for a migrated snapshot (complete = true) or
\* for a snapshot with zero reserves yields an invalid-input outcome that is
\* distinct from every normal price-impact result; it never returns an
\* ordinary price or tokens_out value for such a snapshot.
ZeroReserves(s) == s.virtual_token_reserves = 0 \/ s.virtual_sol_reserves = 0

C24_InvalidInput ==
    (cv.stage \in {"buy", "optimal"} /\ (cv.curve.complete \/ ZeroReserves(cv.curve))) =>
        cv.response = ErrorResponse

\* The part that holds: a snapshot without virtual reserves is refused by both
\* endpoints
C24_ZeroReservesRefused ==
    (cv.stage \in {"buy", "optimal"} /\ ZeroReserves(cv.curve)) => cv.response = ErrorResponse

\* A migrated curve was priced like any other
C24_MigratedPriced ==
    /\ cv.stage = "buy"
    /\ cv.curve.complete
    /\ cv.response.status = "ok"
    /\ RGt(cv.response.tokens_out, Zero)
    /\ RGt(cv.response.current_price, Zero)

-----------------------------------------------------------------------------
\* C25: optimal_buy_amount(snapshot, cap) terminates in a bounded number of
\* search steps and returns an amount x* whose price impact is at most the cap
\* (default 5%) while the price impact of any larger amount beyond the
\* tolerance exceeds the cap.

\* The tolerance of the search on snapshot s: its first interval halved
\* SearchSteps times
Tolerance(s) == Rat(s.virtual_sol_reserves, Pow2(SearchSteps))

ImpactOf(s, x) == CalculateBuyPrice(s, x).price_impact

\* Amounts beyond x by the tolerance or more
BeyondTolerance(s, x) == { RAdd(x, Tolerance(s)), RAdd(x, RMul(FromInt(2), Tolerance(s))) } \cup { y \in Amounts : RGe(y, RAdd(x, Tolerance(s))) }

-----------------------------------------------------------------------------
\* C26: R-Loop task state is persistent and worked in order: absent a reset
\* or a new --tasks list, a task's completed flag only ever changes from false
\* to true, every iteration works on the lowest-index task that is not
\* completed, and a restarted run resumes at that task without redoing
\* completed ones.

\* main() is started with --reset or with a list of new tasks
NewTaskList == MainReset \/ \E n \in 1..MaxTasks, m \in 0..MaxIterationsArg, key \in BOOLEAN : MainRun(n, m, key)

Incomplete(file) == { k \in 1..Len(file.completed) : ~file.completed[k] }

\* k is the lowest-index task of the file that is not completed
LowestIncomplete(file, k) == k \in Incomplete(file) /\ \A m \in Incomplete(file) : k <= m

C26_FlagsKept ==
    (disk.tasks_file.exists /\ ~NewTaskList) =>
        /\ disk'.tasks_file.exists
        /\ disk'.tasks_file.goals = disk.tasks_file.goals
        /\ \A k \in 1..Len(disk.tasks_file.completed) :
               disk.tasks_file.completed[k] => disk'.tasks_file.completed[k]

C26_InOrder ==
    /\ (lp.pc = "head" /\ lp'.pc = "attempt") =>
           /\ LowestIncomplete(disk.tasks_file, lp'.next_idx)
           /\ disk'.status_file.state = "running"
           /\ disk'.status_file.current_task = lp'.next_idx
    /\ (lp.pc = "attempt" /\ disk.tasks_file.exists) =>
           \A k \in 1..Len(disk.tasks_file.completed) :
               disk'.tasks_file.completed[k] # disk.tasks_file.completed[k] =>
                   LowestIncomplete(disk.tasks_file, k) /\ k = lp.next_idx

\* What was logged for a task was logged while the task was not completed,
\* and the tasks are completed in the order of the list
C26_NothingRedone ==
    (lp.pc = "attempt" /\ lp'.pc = "head") =>
        LET entries == disk'.progress_file.entries
            last == entries[Len(entries)]
        IN  /\ Len(entries) = Len(disk.progress_file.entries) + 1
            /\ ~disk.tasks_file.completed[last.task]
            /\ \A k \in 1..(last.task - 1) : disk.tasks_file.completed[k]

-----------------------------------------------------------------------------
\* C27: run_ai_prompt makes at most max_retries API attempts: after the k-th
\* rate-limited attempt (k = 0, 1, 2) it waits 10 x 2^k seconds (10, 20, 40)
\* before trying again, after a non-final API error it waits 5 seconds, it
\* re-raises an API error that occurs on the final attempt, it returns None
\* when the final attempt is rate limited, and it returns the first successful
\* response without further attempts.
BackoffSeconds == << 10, 20, 40 >>

\* An attempt is made only while the call has neither returned nor raised,
\* and fewer than max_retries attempts were made
C27_AttemptsBounded ==
    /\ ai.attempt <= 3
    /\ lp.pc = "attempt" => (ai.outcome = "none" /\ ai.attempt < 3)

C27_Step ==
    /\ Attempt("RateLimitError") =>
           /\ ai'.attempt = ai.attempt + 1
           /\ ai'.waits = Append(ai.waits, BackoffSeconds[ai.attempt + 1])
           /\ ai.attempt < 2 => (ai'.outcome = "none" /\ lp'.pc = "attempt")
           /\ ai.attempt = 2 => (ai'.outcome = "None" /\ lp'.pc = "returned" /\ ~lp'.result)
    /\ Attempt("APIError") =>
           /\ ai'.attempt = ai.attempt + 1
           /\ ai.attempt < 2 => (ai'.waits = Append(ai.waits, 5) /\ ai'.outcome = "none" /\ lp'.pc = "attempt")
           /\ ai.attempt = 2 => (ai'.waits = ai.waits /\ ai'.outcome = "APIError" /\ lp'.pc = "returned" /\ ~lp'.result)
    /\ (Attempt("TASK_COMPLETE") \/ Attempt("in_progress")) =>
           /\ ai'.attempt = ai.attempt + 1
           /\ ai'.waits = ai.waits
           /\ ai'.outcome = "returned"
           /\ lp'.pc = "head"

C27_Retries == [](C27_AttemptsBounded) /\ [][C27_Step]_allVars

\* Three attempts were rate limited: the waits were 10, 20 and 40 seconds and
\* the call returned None
C27_Witness ==
    /\ ai.attempt = 3
    /\ ai.waits = << 10, 20, 40 >>
    /\ ai.outcome = "None"
    /\ lp.pc = "returned"

\* An API error and a rate limit were followed by a response: the waits were
\* 5 and 20 seconds
C27_MixedThenSuccess ==
    /\ ai.attempt = 3
    /\ ai.waits = << 5, 20 >>
    /\ ai.outcome = "returned"

\* The API error of the third attempt was raised, without a wait
C27_FinalErrorRaised ==
    /\ ai.attempt = 3
    /\ ai.outcome = "APIError"
    /\ Len(ai.waits) = 2
    /\ disk.status_file.state = "error"

-----------------------------------------------------------------------------
\* C28: run_loop always terminates and runs at most max_iterations prompt
\* iterations: it returns when all tasks are completed, when an AI call fails,
\* or after max_iterations iterations, in which last case it sets status
\* paused naming the next incomplete task and returns False.
InRunLoop == lp.pc \in {"head", "attempt", "returned"} /\ lp.run = "loop"

\* run_loop has returned in one of the three ways of the claim
C28_Returns ==
    \/ /\ lp.result
       /\ IsComplete(disk.tasks_file)
       /\ disk.status_file.state = "completed"
    \/ /\ ~lp.result
       /\ disk.status_file.state = "error"
    \/ /\ ~lp.result
       /\ lp.iteration >= lp.max_iterations
       /\ disk.status_file.state = "paused"
       /\ LowestIncomplete(disk.tasks_file, disk.status_file.current_task)

C28_RunLoopReturns ==
    /\ lp.pc # "raised"
    /\ InRunLoop => lp.iteration <= lp.max_iterations
    /\ (InRunLoop /\ lp.pc = "returned") => C28_Returns

\* The same for the runs that find a tasks file: violated as well, by the
\* pause of a run whose last allowed iteration completes the last task
C28_WithTasksFile == (InRunLoop /\ lp.pc = "returned") => C28_Returns

\* run_loop has ended with an exception, on a directory without tasks file
C28_Raised ==
    /\ lp.pc = "raised"
    /\ lp.error = "ValueError"
    /\ disk.status_file.state = "initialized"

\* run_loop has returned False with the status paused and all tasks completed
C28_PausedWhenComplete ==
    /\ lp.pc = "returned"
    /\ lp.run = "loop"
    /\ ~lp.result
    /\ disk.status_file.state = "paused"
    /\ disk.status_file.current_task = NoTask
    /\ IsComplete(disk.tasks_file)

-----------------------------------------------------------------------------
\* C29: on every launch tick, exit conditions are evaluated for every
\* currently open position, including positions of other tokens, using the
\* current launch's price series and the current launch's timestamp, not the
\* position's own token's series.  (When the current launch resolves to no
\* price, the evaluation of every position ends at once and leaves it open.)

\* The positions the exit loop of the tick goes through are the open ones,
\* each once, and those it has not reached yet are still open
C29_EveryOpenPosition ==
    pc = "exit" =>
        /\ OpenIds \subseteq { snapshot[n] : n \in 1..Len(snapshot) }
        /\ \A n \in j..Len(snapshot) : snapshot[n] \in OpenIds
        /\ \A n, m \in 1..Len(snapshot) : snapshot[n] = snapshot[m] => n = m

\* The launch the position p was bought at, seen at the time of the launch
\* that is now simulated
OwnSeriesNow(p) == [data[p.pid] EXCEPT !.timestamp = data[i].timestamp]

C29_Step ==
    /\ pc = "buy" => (pc' = "exit" /\ j' = 1 /\ snapshot' = [n \in 1..Len(positions') |-> positions'[n].pid])
    /\ (pc = "exit" /\ (pc' # "exit" \/ i' # i)) => j > Len(snapshot)
    /\ Evaluating =>
           LET p == EvalPos
               holding == { n \in 1..4 : ConditionHolds(n, p, data[i], config.bot_config) }
           IN  /\ pc' = "exit" /\ i' = i /\ j' = j + 1 /\ snapshot' = snapshot
               /\ OpenIds' \in { OpenIds, OpenIds \ {p.pid} }
               /\ CurrentPrice # 0 => (p.pid \notin OpenIds' <=> holding # {})
               /\ CurrentPrice = 0 => p.pid \in OpenIds'
               /\ p.pid \notin OpenIds' =>
                      LET sold == closed_positions'[Len(closed_positions')]
                      IN  /\ sold.pid = p.pid
                          /\ sold.exit_time = data[i].timestamp + config.execution_delay_seconds
                          /\ sold.exit_price = RMul(ResolvedExitPrice(p, data[i]), SellFactor)

C29_CurrentLaunchSeries == [](C29_EveryOpenPosition) /\ [][C29_Step]_vars

\* A position has just been closed at the launch of another token, by a
\* condition on the price, although no condition holds at that time on the
\* series of the launch it was bought at
C29_Witness ==
    /\ JustClosed
    /\ LastClosed.token_mint # data[i].token_mint
    /\ LastClosed.exit_reason \in {"Take profit", "Stop loss", "Trailing stop"}
    /\ GetPriceAtTime(OwnSeriesNow(LastClosed), data[i].timestamp) # 0
    /\ \A n \in 1..4 : ~ConditionHolds(n, [LastClosed EXCEPT !.peak_price = LastClosed.entry_price], OwnSeriesNow(LastClosed), config.bot_config)

\* Two positions are open at the launch of a third token and the first of
\* them has been evaluated and left open
C29_OthersEvaluated ==
    /\ pc = "exit"
    /\ j = 2
    /\ Len(snapshot) >= 2
    /\ snapshot[1] \in OpenIds
    /\ \A k \in 1..Len(positions) : positions[k].token_mint # data[i].token_mint
    /\ CurrentPrice # 0

-----------------------------------------------------------------------------
\* C30: capital is conserved across buys and sells: after every launch tick
\* (and after every buy and every sell within it) the running capital equals
\* starting_capital_sol minus the sum of entry_amount_sol over the open
\* positions plus the sum of pnl_sol over the closed positions.  The amounts
\* are exact rationals.

EntryAmounts(ps) == [k \in 1..Len(ps) |-> ps[k].entry_amount_sol]

Profits(ps) == [k \in 1..Len(ps) |-> ps[k].pnl_sol]

Conserved ==
    RAdd(RSub(FromInt(config.starting_capital_sol), RSum(EntryAmounts(positions))),
         RSum(Profits(closed_positions)))

TickOver == pc = "exit" /\ j > Len(snapshot)

C30_WinAndLoss ==
    /\ TickOver
    /\ \E k, m \in 1..Len(closed_positions) :
           /\ RGt(closed_positions[k].pnl_sol, Zero)
           /\ RLt(closed_positions[m].pnl_sol, Zero)

-----------------------------------------------------------------------------
\* C31: in the returned BacktestResults, total_pnl_sol equals
\* ending_capital_sol - starting_capital_sol and equals the sum of pnl_sol
\* over results.positions, for every run, including runs that end with
\* positions still open.
C31_TotalPnl ==
    pc = "done" =>
        /\ results.total_pnl_sol = RSub(results.ending_capital_sol, results.starting_capital_sol)
        /\ results.total_pnl_sol = RSum(Profits(results.positions))

\* The two equalities hold for the runs that end with no position open
C31_NothingOpen ==
    (pc = "done" /\ positions = << >>) =>
        /\ results.total_pnl_sol = RSub(results.ending_capital_sol, results.starting_capital_sol)
        /\ results.total_pnl_sol = RSum(Profits(results.positions))

\* A run has ended with a position open and a position closed: the total is
\* the difference of the capitals and is not the sum of the profits
C31_OpenAtEnd ==
    /\ pc = "done"
    /\ positions # << >>
    /\ results.positions # << >>
    /\ results.total_pnl_sol = RSub(results.ending_capital_sol, results.starting_capital_sol)
    /\ results.total_pnl_sol # RSum(Profits(results.positions))

\* A run has ended with a position open and none closed: the total is 0 and
\* the ending capital is below the starting capital
C31_ZeroedWithOpen ==
    /\ pc = "done"
    /\ positions # << >>
    /\ results.positions = << >>
    /\ results.total_pnl_sol = Zero
    /\ RLt(results.ending_capital_sol, results.starting_capital_sol)

\* A run has ended with nothing open and a profit or a loss
C31_ClosedOut ==
    /\ pc = "done"
    /\ positions = << >>
    /\ results.total_pnl_sol # Zero

-----------------------------------------------------------------------------
\* C32: running capital is never negative at any point of a run that starts
\* with non-negative capital: a buy debits at most the capital available,
\* and a sell credits a non-negative amount.  (Prices are non-negative, the
\* buy size is positive and the slippage leaves a non-negative sell factor.)
C32_Step ==
    /\ pc = "buy" =>
           LET debit == RSub(capital, capital')
           IN  /\ debit.num >= 0
               /\ RSub(capital, debit).num >= 0
               /\ capital' # capital => debit = FromInt(config.bot_config.buy_amount_sol)
    /\ pc = "exit" => RSub(capital', capital).num >= 0
    /\ pc = "calc" => capital' = capital

C32_NeverNegative == [](RGe(capital, Zero)) /\ [][C32_Step]_vars

\* A launch passes the entry filter with room for a position and a price,
\* and is not bought because the buy size exceeds the capital left
C32_Witness ==
    /\ pc = "exit"
    /\ j = 1
    /\ ShouldBuyToken(data[i], config.bot_config)
    /\ GetPriceAtTime(data[i], data[i].timestamp + config.execution_delay_seconds) # 0
    /\ Len(positions) < config.max_concurrent_positions
    /\ \A k \in 1..Len(positions) : positions[k].pid # i
    /\ RLt(capital, FromInt(config.bot_config.buy_amount_sol))
    /\ RGe(capital, Zero)

\* A sell has credited less than what the position had cost
C32_SoldAtLoss ==
    /\ JustClosed
    /\ RLt(LastClosed.exit_amount_sol, LastClosed.entry_amount_sol)
    /\ RGe(LastClosed.exit_amount_sol, Zero)

-----------------------------------------------------------------------------
\* C33: the trade log stays consistent with the position sets after every
\* tick (and after every buy and sell within it): each launch record yields
\* at most one BUY, each position has exactly one BUY record and at most one
\* SELL record, its SELL comes after its BUY in the log, the number of SELL
\* records equals the number of closed positions, and the number of BUY
\* records equals open plus closed positions.
RecordsOf(type, pid) ==
    { n \in 1..Len(trades) : trades[n].trade_type = type /\ trades[n].pid = pid }

RecordsOfType(type) == { n \in 1..Len(trades) : trades[n].trade_type = type }

C33_LogConsistent ==
    InRun =>
        /\ \A n \in 1..Len(trades) : trades[n].trade_type \in {"BUY", "SELL"}
        /\ \A n \in 1..Len(data) : Cardinality(RecordsOf("BUY", n)) <= 1
        /\ \A n \in RecordsOfType("BUY") : trades[n].pid <= i
        /\ \A pid \in OpenIds :
               /\ Cardinality(RecordsOf("BUY", pid)) = 1
               /\ RecordsOf("SELL", pid) = {}
        /\ \A pid \in ClosedIds :
               /\ Cardinality(RecordsOf("BUY", pid)) = 1
               /\ Cardinality(RecordsOf("SELL", pid)) = 1
               /\ \A b \in RecordsOf("BUY", pid), s \in RecordsOf("SELL", pid) : b < s
        /\ \A n \in 1..Len(trades) : trades[n].pid \in OpenIds \cup ClosedIds
        /\ Cardinality(RecordsOfType("SELL")) = Len(closed_positions)
        /\ Cardinality(RecordsOfType("BUY")) = Len(positions) + Len(closed_positions)

\* Each step of a tick writes at most one record, at the end of the log
C33_Step ==
    (InRun /\ pc' \in {"buy", "exit", "calc"}) =>
        \/ trades' = trades
        \/ /\ Len(trades') = Len(trades) + 1
           /\ SubSeq(trades', 1, Len(trades)) = trades
           /\ pc = "buy" => trades'[Len(trades')].trade_type = "BUY" /\ trades'[Len(trades')].pid = i
           /\ pc = "exit" => trades'[Len(trades')].trade_type = "SELL" /\ trades'[Len(trades')].pid = snapshot[j]

C33_TradeLog == [](C33_LogConsistent) /\ [][C33_Step]_vars

\* A tick is over with a position open and a position closed, and the log
\* holds the buy of another position between the buy and the sell of one
C33_Witness ==
    /\ TickOver
    /\ positions # << >>
    /\ closed_positions # << >>
    /\ \E b, m, s \in 1..Len(trades) :
           /\ b < m /\ m < s
           /\ trades[b].trade_type = "BUY" /\ trades[s].trade_type = "SELL"
           /\ trades[b].pid = trades[s].pid
           /\ trades[m].trade_type = "BUY" /\ trades[m].pid # trades[b].pid

-----------------------------------------------------------------------------
\* C34: with positive take-profit, stop-loss, trailing-stop and max-hold
\* thresholds, a position is never closed during the same launch tick in
\* which it was opened, in any slippage mode.
PositiveThresholds ==
    /\ config.bot_config.take_profit_pct > 0
    /\ config.bot_config.stop_loss_pct > 0
    /\ config.bot_config.trailing_stop_pct > 0
    /\ config.bot_config.max_position_age_minutes > 0

\* The position under evaluation was opened by the buy of this tick
OpenedThisTick == Evaluating /\ EvalPos.pid = i

C34_Step == (OpenedThisTick /\ PositiveThresholds) => i \in OpenIds'

C34_NotClosedSameTick == [][C34_Step]_vars

\* The max-hold rule never closes a position in the tick that opened it
C34_NotByAge_Step ==
    (OpenedThisTick /\ PositiveThresholds /\ i \notin OpenIds') =>
        closed_positions'[Len(closed_positions')].exit_reason # "Max hold time"

C34_NotByAge == [][C34_NotByAge_Step]_vars

\* A position has been closed by take profit in the tick that opened it, at
\* the time of its entry and without a profit
C34_TakeProfitAtEntry ==
    /\ JustClosed
    /\ LastClosed.pid = i
    /\ LastClosed.exit_reason = "Take profit"
    /\ LastClosed.exit_time = LastClosed.entry_time
    /\ RLe(LastClosed.pnl_sol, Zero)

\* A position has been closed by stop loss in the tick that opened it
C34_StopLossAtEntry ==
    /\ JustClosed
    /\ LastClosed.pid = i
    /\ LastClosed.exit_reason = "Stop loss"
    /\ LastClosed.exit_time = LastClosed.entry_time

\* A position opened at a steady price is still open at the end of its tick
C34_KeptOpen ==
    /\ TickOver
    /\ i \in OpenIds

-----------------------------------------------------------------------------
\* C35: whenever run_loop returns with every task marked completed, it
\* returns True and the status file state is completed, including when the
\* last task is completed on the final allowed iteration.
AllDoneAtReturn ==
    /\ lp.pc = "returned"
    /\ lp.run = "loop"
    /\ disk.tasks_file.exists
    /\ IsComplete(disk.tasks_file)

C35_CompletedReturnsTrue ==
    AllDoneAtReturn => (lp.result /\ disk.status_file.state = "completed")

\* The same for the returns that leave an iteration unused
C35_WithIterationLeft ==
    (AllDoneAtReturn /\ lp.iteration < lp.max_iterations) =>
        (lp.result /\ disk.status_file.state = "completed")

\* The last task has been completed with an iteration left, and run_loop has
\* returned True with the status completed
C35_CompletedInTime ==
    /\ AllDoneAtReturn
    /\ lp.iteration > 0
    /\ lp.iteration < lp.max_iterations
    /\ lp.result
    /\ disk.status_file.state = "completed"
    /\ disk.status_file.completed = disk.tasks_file.goals

\* The last task has been completed by the final allowed iteration, and
\* run_loop has returned False with the status paused
C35_CompletedTooLate ==
    /\ AllDoneAtReturn
    /\ lp.iteration = lp.max_iterations
    /\ ~lp.result
    /\ disk.status_file.state = "paused"
    /\ disk.status_file.completed = disk.status_file.total

-----------------------------------------------------------------------------
\* C36: when the AI call of an iteration fails (run_ai_prompt returns None
\* or raises), run_loop sets the status state to error with the number of
\* tasks completed so far, returns False without running further
\* iterations, and leaves every task's completed flag unchanged.
CallFailures == {"None", "APIError", "ValueError"}

\* The call of this step ends run_ai_prompt with None or an exception
CallFails == InRunLoop /\ ai.outcome \notin CallFailures /\ ai'.outcome \in CallFailures

C36_Step ==
    /\ CallFails =>
           /\ lp'.pc = "returned"
           /\ ~lp'.result
           /\ lp'.iteration = lp.iteration
           /\ disk'.status_file.state = "error"
           /\ disk'.status_file.completed = CompletedCount(disk.tasks_file)
           /\ disk'.status_file.total = disk.tasks_file.goals
           /\ disk'.status_file.error # "None"
           /\ disk'.tasks_file = disk.tasks_file
    /\ (lp.pc = "returned" /\ lp' # lp) => (runs' = runs + 1 /\ ai' = NoCall)

C36_FailedCall ==
    (lp.pc = "returned" /\ lp.run = "loop" /\ ai.outcome \in CallFailures) =>
        /\ ~lp.result
        /\ disk.status_file.state = "error"
        /\ disk.status_file.completed = CompletedCount(disk.tasks_file)
        /\ ~IsComplete(disk.tasks_file)

C36_ErrorStops == [](C36_FailedCall) /\ [][C36_Step]_allVars

\* The call of the second iteration has raised an API error after one task
\* was completed: the status is error with one task completed
C36_Witness ==
    /\ lp.pc = "returned"
    /\ lp.run = "loop"
    /\ ai.outcome = "APIError"
    /\ lp.iteration = 1
    /\ lp.max_iterations = 2
    /\ disk.status_file.state = "error"
    /\ disk.status_file.completed = 1
    /\ disk.tasks_file.completed = << TRUE, FALSE >>

\* run_ai_prompt has returned None after three rate-limited attempts
C36_ReturnedNone ==
    /\ lp.pc = "returned"
    /\ lp.run = "loop"
    /\ ai.outcome = "None"
    /\ disk.status_file.state = "error"
    /\ disk.status_file.error = "API failure"

\* run_ai_prompt has raised for the missing API key
C36_MissingKey ==
    /\ lp.pc = "returned"
    /\ lp.run = "loop"
    /\ ai.outcome = "ValueError"
    /\ disk.status_file.state = "error"

-----------------------------------------------------------------------------
\* C37: under any interleaving of concurrently handled Telegram messages, a
\* given token address is analyzed (metrics fetched, AI called, result
\* saved, alert sent) at most once: analyze_token skips a token that is
\* already in the analyzed-token database or whose analysis was started
\* within the 60-second cooldown.

\* The analyses of the address started so far, whatever its spelling
Analyses(address) == { n \in 1..Len(log) : Lower(log[n]) = Lower(address) }

Addresses == UNION { { d[n].address : n \in 1..Len(d) } : d \in Detections }

C37_AnalyzedOnce == \A address \in Addresses : Cardinality(Analyses(address)) <= 1

\* The two skips of analyze_token as the code makes them: no analysis of an
\* address starts once the address is in the database, and none starts for a
\* token key, chain and spelling, less than 60 seconds after the last start
\* for that key
C37_Skips_Step ==
    Len(log') > Len(log) =>
        /\ Len(log') = Len(log) + 1
        /\ Lower(log'[Len(log')]) \notin db
        /\ \E h \in 1..Len(handlers) :
               /\ handlers'[h].pc = "fetch"
               /\ handlers[h].pc # "fetch"
               /\ handlers'[h].tokens[1].address = log'[Len(log')]
               /\ LET key == TokenKey(handlers'[h].tokens[1])
                  IN  /\ key \in DOMAIN last_analysis => now - last_analysis[key] >= AnalysisCooldown
                      /\ last_analysis'[key] = now

C37_Skips == [][C37_Skips_Step]_allVars

\* Two analyses of one address in one spelling are in progress: the second
\* started 60 seconds after the first, which has not been saved yet
C37_TwiceAfterCooldown ==
    /\ log = << "0xab", "0xab" >>
    /\ Len(handlers) = 2
    /\ handlers[1].pc \in {"fetch", "ai"}
    /\ handlers[2].pc \in {"fetch", "ai"}
    /\ handlers[1].tokens[1] = handlers[2].tokens[1]
    /\ db = {}

\* Two analyses of one address are in progress at the same time, started for
\* two spellings of it
C37_TwiceBySpelling ==
    /\ now = 0
    /\ log = << "0xAB", "0xab" >>
    /\ handlers[1].pc = "fetch"
    /\ handlers[2].pc = "fetch"

\* One address has been analyzed twice at the same time, for two chains
C37_TwiceByChain ==
    /\ now = 0
    /\ Len(log) >= 2
    /\ SubSeq(log, 1, 2) = << "0xab", "0xab" >>
    /\ { << "ethereum", "0xab" >>, << "bsc", "0xab" >> } \subseteq DOMAIN last_analysis
    /\ stats.tokens_analyzed >= 2
    /\ db = {"0xab"}

-----------------------------------------------------------------------------
\* C38: under any interleaving of send_alert with the connection handlers,
\* the client set of WebSocketBridge holds only connected clients and every
\* client is removed from it exactly once: a broadcast is never disturbed by
\* a client connecting or disconnecting while it is in progress, and a
\* handler's removal on disconnect never fails because send_alert already
\* removed that client.

Disturbed(h) == handlers[h].pc = "RuntimeError"

RemovalFailed(w) == conns[w] = "KeyError"

C38_ClientSetSafe ==
    /\ \A h \in 1..Len(handlers) : ~Disturbed(h)
    /\ \A w \in Websockets : ~RemovalFailed(w)

\* What does hold of the client set: it holds only websockets whose handler
\* has started and has not finished
C38_OnlyRunningHandlers == \A w \in clients : conns[w] \in {"open", "closing"}

\* A broadcast to one client ends in RuntimeError because a second client
\* connected during the send
C38_DisturbedByConnect ==
    \E h \in 1..Len(handlers) :
        /\ Disturbed(h)
        /\ handlers[h].it.size = 1
        /\ Cardinality(clients) = 2
        /\ \A w \in Websockets : conns[w] = "open"

\* A broadcast to two clients ends in RuntimeError because the handler of
\* one removed it during the send to the other, which got no alert or was
\* the only one to get it
C38_DisturbedByDisconnect ==
    \E h \in 1..Len(handlers) :
        /\ Disturbed(h)
        /\ handlers[h].it.size = 2
        /\ Cardinality(handlers[h].it.visited) = 1
        /\ Cardinality(clients) = 1
        /\ \E w \in Websockets : conns[w] = "closed"

\* send_alert removed a client whose send failed, and the handler's
\* clients.remove then raised KeyError
C38_RemovedTwice ==
    \E w \in Websockets :
        /\ RemovalFailed(w)
        /\ w \notin clients
        /\ \E h \in 1..Len(handlers) : handlers[h].pc \in {"done", "fetch"}

====
